---- MODULE Spec2Model ----
(***************************************************************************)
(* A model of the hierarchical Poincare-Steklov solver of meliao/ha-hps:   *)
(* the solve entry point (src/src/hahps/_solve.py), the 2D ItI upward pass *)
(* (src/src/hahps/up_pass/_uniform_2D_ItI.py), the leaf local solves       *)
(* (src/src/hahps/local_solve) and the fused/chunked controller            *)
(* (src/hps/src/methods/fused_methods.py).                                 *)
(*                                                                         *)
(* Arrays are modelled by their shape (a sequence of naturals) together    *)
(* with a symbolic value (a sequence of naturals naming what the array was *)
(* computed from).  Dense linear algebra is modelled by what it does to    *)
(* shapes and to the identity of the data, not by floating point numbers.  *)
(***************************************************************************)
EXTENDS Integers, Sequences, FiniteSets, TLC

VARIABLES
    pde_problem,    \* the PDEProblem object handed to solve
    built,          \* the PDEProblem as build_solver left it (history variable)
    calls,          \* the pass functions the last solve call invoked, in order
    outcome,        \* how the last solve call ended
    result,         \* the array the last solve call returned
    args,           \* the arguments of the last solve call
    f_cfg,          \* fused controller: the arguments and the chunking of the running call
    f_pc,           \* fused controller: position ("idle", "loop", "done", "error")
    f_i,            \* fused controller: index of the next chunk
    f_order,        \* fused controller: the leaves handed to the local solve, in order
    f_T_lst,        \* fused controller: the per-chunk partial merge results (T_last)
    f_soln_lst,     \* fused controller: the per-chunk leaf solutions
    f_ret,          \* fused controller: what the last call returned
    f_handed,       \* fused controller: the boundary rows handed to each chunk so far
    f_mem,          \* fused controller: the arrays deleted so far, and those read after that
    sh_prob,        \* stage by stage: the problem the stages are run on
    sh_out,         \* stage by stage: the outputs of the stages run so far
    fn_in,          \* operator assembly: the arguments of the call
    fn_out          \* operator assembly: what the call returned

solveVars == <<pde_problem, built, calls, outcome, result, args>>

fusedVars == <<f_cfg, f_pc, f_i, f_order, f_T_lst, f_soln_lst, f_ret, f_handed, f_mem>>

stageVars == <<sh_prob, sh_out>>

fnVars == <<fn_in, fn_out>>

vars == <<pde_problem, built, calls, outcome, result, args,
          f_cfg, f_pc, f_i, f_order, f_T_lst, f_soln_lst, f_ret, f_handed, f_mem,
          sh_prob, sh_out, fn_in, fn_out>>

----------------------------------------------------------------------------
(* Bounds of the model.                                                    *)

\* deepest uniform tree
MaxL == 2
\* largest Chebyshev order p drawn (the smallest is 3: one interior node)
MaxP == 4
\* largest Gauss order q drawn
MaxQ == 2
\* largest number of simultaneous sources of a multi-source array
MaxNsrc == 2
\* number of distinct boundary data / source contents drawn
MaxData == 2

----------------------------------------------------------------------------
(* Shapes and symbolic arrays.                                             *)

RECURSIVE Pow(_, _)
Pow(b, e) == IF e = 0 THEN 1 ELSE b * Pow(b, e - 1)

\* the element of a one-element set; {f(x) : x \in {e}} computes e once
The(S) == CHOOSE x \in S : TRUE

\* one step of an array's history: what was computed, with a number
\* (a level, or which input it was)
Tag(name, k) == <<name, k>>

\* An array: its shape and its history, the newest step first.
Arr(shape, val) == [shape |-> shape, val |-> val]

\* Python's None for an optional array argument or attribute.
None == [shape |-> <<>>, val |-> <<Tag("None", 0)>>]

IsNone(a) == a = None

\* jnp.expand_dims(a, axis=-1)
expand_dims(a) == Arr(Append(a.shape, 1), a.val)

\* a[..., 0]: drops the last axis, keeping its first slice
index_last0(a) == Arr(SubSeq(a.shape, 1, Len(a.shape) - 1), a.val)

\* the shape of a failed array operation (the Python call raises)
BadShape == <<0, 0, 0, 0, 0>>

Ok(a) == a.shape # BadShape

\* a @ b for a 2-D left operand and a 1-D or 2-D right operand
MatMul(a, b, val) ==
    IF Ok(a) /\ Ok(b) /\ Len(a.shape) = 2 /\ Len(b.shape) \in {1, 2}
          /\ a.shape[2] = b.shape[1]
    THEN Arr(<<a.shape[1]>> \o Tail(b.shape), val)
    ELSE Arr(BadShape, val)

\* a[k:] on axis 0
RowsFrom(a, k) == Arr(<<a.shape[1] - k>> \o Tail(a.shape), a.val)

\* a[:, k:] and a[:, :k] of a matrix
ColsFrom(a, k) == Arr(<<a.shape[1], a.shape[2] - k>>, a.val)

ColsTo(a, k) == Arr(<<a.shape[1], k>>, a.val)

\* jax.vmap over n entries: the outputs gain a leading axis of size n
Batch(n, a) == IF Ok(a) THEN Arr(<<n>> \o a.shape, a.val) ELSE a

\* jnp.squeeze(a, axis=-1): raises unless the last axis has size 1
squeeze_last(a) ==
    IF Len(a.shape) >= 1 /\ a.shape[Len(a.shape)] = 1
    THEN Arr(SubSeq(a.shape, 1, Len(a.shape) - 1), a.val)
    ELSE Arr(BadShape, a.val)

\* the histories of the arrays of a list, one after the other
RECURSIVE ListVal(_)
ListVal(lst) == IF lst = <<>> THEN <<>> ELSE Head(lst).val \o ListVal(Tail(lst))

----------------------------------------------------------------------------
(* Leaf local solves.                                                      *)

\* jnp.linalg.inv(a): raises for a matrix that is not square only.  For a
\* singular matrix it returns an array of the same shape (with entries that
\* are not finite) and raises nothing.
linalg_inv(a) ==
    IF Ok(a) /\ Len(a.shape) = 2 /\ a.shape[1] = a.shape[2]
    THEN Arr(a.shape, a.val)
    ELSE Arr(BadShape, a.val)

\* get_DtN on one leaf: returns <<Y, T, v, h>>
get_DtN(source_term, diff_operator, Q, P) ==
    LET n_cheby_bdry == P.shape[1]
        n == diff_operator.shape[1]
        A_ii == Arr(<<n - n_cheby_bdry, n - n_cheby_bdry>>, diff_operator.val)
        A_ii_inv == linalg_inv(A_ii)
        A_ie == Arr(<<n - n_cheby_bdry, n_cheby_bdry>>, diff_operator.val)
        soln_operator == MatMul(A_ii_inv, A_ie, diff_operator.val)
        L_2 == IF Ok(soln_operator) /\ soln_operator.shape = <<n - n_cheby_bdry, n_cheby_bdry>>
               THEN Arr(<<n, n_cheby_bdry>>, diff_operator.val)
               ELSE Arr(BadShape, diff_operator.val)
        v_int == MatMul(A_ii_inv, RowsFrom(source_term, n_cheby_bdry),
                        <<Tag("v", 0)>> \o diff_operator.val \o source_term.val)
    IN  The({ The({ <<Y, MatMul(Q, Y, <<Tag("T", 0)>> \o diff_operator.val),
                      v, MatMul(Q, v, <<Tag("h", 0)>> \o diff_operator.val
                                         \o source_term.val)>> :
                    \* v = zeros((n,)); v.at[n_cheby_bdry:].set(v_int)
                    v \in {IF Ok(vi) /\ vi.shape = <<n - n_cheby_bdry>>
                           THEN Arr(<<n>>, vi.val) ELSE Arr(BadShape, vi.val)} }) :
              Y \in {MatMul(L_2, P, <<Tag("Y", 0)>> \o diff_operator.val)},
              vi \in {v_int} })

\* get_ItI on one leaf: returns <<T, Y, h, v>>
get_ItI(diff_operator, source_term, P, QH, G) ==
    LET n_cheby_pts == diff_operator.shape[2]
        n_cheby_bdry_pts == P.shape[1]
        \* B = zeros; B.at[:n_cheby_bdry_pts].set(G); B.at[n_cheby_bdry_pts:].set(A[n_cheby_bdry_pts:])
        B == IF G.shape = <<n_cheby_bdry_pts, n_cheby_pts>>
                  /\ diff_operator.shape = <<n_cheby_pts, n_cheby_pts>>
             THEN Arr(<<n_cheby_pts, n_cheby_pts>>, diff_operator.val)
             ELSE Arr(BadShape, diff_operator.val)
        source_int == RowsFrom(source_term, n_cheby_bdry_pts)
    IN  The({ The({ <<MatMul(QH, Y, <<Tag("T", 0)>> \o diff_operator.val), Y,
                      MatMul(QH, v, <<Tag("h", 0)>> \o diff_operator.val
                                        \o source_term.val), v>> :
                    Y \in {MatMul(IF Ok(B_inv) THEN ColsTo(B_inv, n_cheby_bdry_pts)
                                  ELSE B_inv, P, <<Tag("Y", 0)>> \o diff_operator.val)},
                    \* Phi = B_inv[:, n_cheby_bdry_pts:]
                    v \in {MatMul(IF Ok(B_inv) THEN ColsFrom(B_inv, n_cheby_bdry_pts)
                                  ELSE B_inv, source_int,
                                  <<Tag("v", 0)>> \o diff_operator.val
                                      \o source_term.val)} }) :
              B_inv \in {linalg_inv(B)} })

\* vmapped_assemble_diff_operator: one (p^2, p^2) operator per leaf
vmapped_assemble_diff_operator(prob) ==
    LET n == prob.D_xx.shape[1]
    IN  Arr(<<prob.domain.n_leaves, n, n>>, prob.coefficients.val)

\* one leaf's slice of a batched array
Leaf(a) == Arr(Tail(a.shape), a.val)

\* local_solve_stage_uniform_2D_DtN: returns <<Y_arr, T_arr, v, h>>
local_solve_stage_uniform_2D_DtN(prob) ==
    The({ <<Batch(prob.domain.n_leaves, out[1]), Batch(prob.domain.n_leaves, out[2]),
            Batch(prob.domain.n_leaves, out[3]), Batch(prob.domain.n_leaves, out[4])>> :
          out \in {get_DtN(Leaf(prob.source), Leaf(vmapped_assemble_diff_operator(prob)),
                           prob.Q, prob.P)} })

\* vmapped_get_ItI on the leaves of the problem, in the order R, Y, h, v.
\* A 2-D source gets a trailing source axis first.
vmapped_get_ItI(prob) ==
    The({ <<Batch(prob.domain.n_leaves, out[1]), Batch(prob.domain.n_leaves, out[2]),
            Batch(prob.domain.n_leaves, out[3]), Batch(prob.domain.n_leaves, out[4])>> :
          out \in {get_ItI(Leaf(vmapped_assemble_diff_operator(prob)),
                           Leaf(IF Len(prob.source.shape) = 2
                                THEN expand_dims(prob.source) ELSE prob.source),
                           prob.P, prob.QH, prob.G)} })

\* the outputs of vmapped_get_ItI handed back in its order, R, Y, h, v
local_solve_ItI_unordered(prob) ==
    The({ <<o[1], o[2], IF Ok(o[3]) THEN index_last0(o[3]) ELSE o[3],
            IF Ok(o[4]) THEN index_last0(o[4]) ELSE o[4]>> :
          o \in {vmapped_get_ItI(prob)} })

\* local_solve_stage_uniform_2D_ItI: returns <<Y_arr, R_arr, v, h>>; the
\* [..., 0] on h and v takes away the source axis
local_solve_stage_uniform_2D_ItI(prob) ==
    The({ <<o[2], o[1], IF Ok(o[4]) THEN index_last0(o[4]) ELSE o[4],
            IF Ok(o[3]) THEN index_last0(o[3]) ELSE o[3]>> :
          o \in {vmapped_get_ItI(prob)} })

----------------------------------------------------------------------------
(* The merge stage of a uniform 2D tree (hahps.merge, hps uniform_build_stage). *)

\* One level: groups of 4 siblings with n_bdry boundary points each are merged.
\* n_int points lie on each of the 4 interior interfaces of a child pair,
\* n_ext = 2 n_int on each child's exterior.
quad_merge_shapes(T, h, level, per_interface) ==
    LET nodes == T.shape[1]
        n_bdry == T.shape[2]
        n_int == n_bdry \div 4
        n_ext == 2 * n_int
        groups == nodes \div 4
        n_interface == per_interface * n_int
        ok == Ok(T) /\ nodes % 4 = 0 /\ nodes >= 4
    IN  [ok |-> ok,
         S |-> Arr(<<groups, n_interface, 4 * n_ext>>, <<Tag("S", level)>> \o T.val),
         D_inv |-> Arr(<<groups, 8 * n_int, 8 * n_int>>, <<Tag("D_inv", level)>> \o T.val),
         BD_inv |-> Arr(<<groups, 4 * n_ext, 8 * n_int>>, <<Tag("BD_inv", level)>> \o T.val),
         g_tilde |-> Arr(<<groups, n_interface>>, <<Tag("g_tilde", level)>> \o h.val),
         T |-> Arr(<<groups, 4 * n_ext, 4 * n_ext>>, <<Tag("T", level + 1)>> \o T.val),
         \* h = h_ext - BD_inv h_int
         h |-> Arr(<<groups, 4 * n_ext>>,
                   <<Tag("h", level + 1), Tag("h_ext_child", level),
                     Tag("BD_inv @ h_int_child", level)>> \o h.val)]

\* a merge that keeps two unknowns per interface point whatever the map
quad_merge_level_two_sided(T, h, level, use_ItI) == quad_merge_shapes(T, h, level, 8)

\* an ItI merge solves for the incoming and the outgoing data on the four
\* interfaces (8 n_int unknowns), a DtN merge for the solution there (4 n_int)
quad_merge_level(T, h, level, use_ItI) ==
    quad_merge_shapes(T, h, level, IF use_ItI THEN 8 ELSE 4)

\* l levels of merging, bottom-up; the lists keep one entry per level
RECURSIVE merge_levels(_, _, _, _, _, _)
merge_levels(T, h, level, l, use_ItI, acc) ==
    IF level = l THEN [acc EXCEPT !.T_last = T, !.h_last = h]
    ELSE The({ IF ~m.ok THEN [acc EXCEPT !.ok = FALSE]
               ELSE merge_levels(m.T, m.h, level + 1, l, use_ItI,
                        [ok |-> TRUE,
                         S_lst |-> Append(acc.S_lst, m.S),
                         g_tilde_lst |-> Append(acc.g_tilde_lst, m.g_tilde),
                         D_inv_lst |-> Append(acc.D_inv_lst, m.D_inv),
                         BD_inv_lst |-> Append(acc.BD_inv_lst, m.BD_inv),
                         T_last |-> m.T, h_last |-> m.h]) :
               m \in {quad_merge_level(T, h, level, use_ItI)} })

merge_stage_uniform_2D(T_arr, h_arr, l, use_ItI) ==
    merge_levels(T_arr, h_arr, 0, l, use_ItI,
        [ok |-> TRUE, S_lst |-> <<>>, g_tilde_lst |-> <<>>, D_inv_lst |-> <<>>,
         BD_inv_lst |-> <<>>, T_last |-> T_arr, h_last |-> h_arr])

----------------------------------------------------------------------------
(* The upward pass for 2D ItI problems.                                    *)

\* vmapped_assemble_boundary_data on h_in of shape (groups, 4, nbdry, nsrc)
vmapped_assemble_boundary_data(h_in, D_inv, BD_inv, level) ==
    LET groups == h_in.shape[1]
        nside == h_in.shape[3] \div 4
        nsrc == h_in.shape[4]
        h_int_child == Arr(<<8 * nside, nsrc>>, h_in.val)
        h_ext_child == Arr(<<8 * nside, nsrc>>, h_in.val)
        same == D_inv.shape[1] = groups /\ BD_inv.shape[1] = groups
    IN  The({ [ok |-> same /\ Ok(g_tilde) /\ Ok(Bh) /\ Bh.shape = h_ext_child.shape,
               h |-> Batch(groups, IF Bh.shape = h_ext_child.shape THEN Bh
                                   ELSE Arr(BadShape, Bh.val)),
               g_tilde |-> Batch(groups, g_tilde)] :
              g_tilde \in {MatMul(Leaf(D_inv), h_int_child,
                                  <<Tag("g_tilde", level)>> \o h_in.val)},
              \* h = h_ext_child - BD_inv @ h_ext_child
              Bh \in {MatMul(Leaf(BD_inv), h_ext_child,
                             <<Tag("h", level + 1), Tag("h_ext_child", level),
                               Tag("BD_inv @ h_ext_child", level)>> \o h_in.val)} })

\* the loop over the cached D_inv_lst / BD_inv_lst (levels are 1-based here)
RECURSIVE up_pass_levels(_, _, _, _, _)
up_pass_levels(h_in, i, D_inv_lst, BD_inv_lst, g_tilde_lst) ==
    IF i > Len(D_inv_lst) THEN [ok |-> TRUE, g_tilde_lst |-> g_tilde_lst]
    ELSE IF Len(h_in.shape) # 3
         \* nnodes, nbdry, nsrc = h_in.shape raises ValueError
         THEN [ok |-> FALSE, g_tilde_lst |-> g_tilde_lst]
    ELSE IF h_in.shape[1] % 4 # 0 \/ i > Len(BD_inv_lst)
         THEN [ok |-> FALSE, g_tilde_lst |-> g_tilde_lst]
    ELSE The({ IF ~a.ok THEN [ok |-> FALSE, g_tilde_lst |-> g_tilde_lst]
               ELSE up_pass_levels(a.h, i + 1, D_inv_lst, BD_inv_lst,
                                   Append(g_tilde_lst, a.g_tilde)) :
               a \in {vmapped_assemble_boundary_data(
                         Arr(<<h_in.shape[1] \div 4, 4, h_in.shape[2], h_in.shape[3]>>,
                             h_in.val),
                         D_inv_lst[i], BD_inv_lst[i], i - 1)} })

\* jnp.squeeze on every list entry
squeeze_all(lst) == [k \in 1..Len(lst) |-> squeeze_last(lst[k])]

AllOk(lst) == \A k \in 1..Len(lst) : Ok(lst[k])

\* what up_pass_uniform_2D_ItI hands back from the local solve ls and the
\* outcome of its loop
up_pass_return(prob, ls, loop, bool_multi_source) ==
    The({ IF loop.ok /\ Ok(out[1]) /\ AllOk(out[2])
          THEN [prob |-> prob, outcome |-> "returned", v |-> out[1],
                g_tilde_lst |-> out[2]]
          ELSE [prob |-> prob, outcome |-> "ValueError", v |-> None,
                g_tilde_lst |-> <<>>] :
          out \in {IF ~bool_multi_source
                   THEN <<squeeze_last(ls[3]), squeeze_all(loop.g_tilde_lst)>>
                   ELSE <<ls[3], loop.g_tilde_lst>>} })

\* The body of up_pass_uniform_2D_ItI; store_v tells whether the recomputed v
\* is also written to the problem (the code does not write it).
up_pass_core(prob, source, store_v) ==
    IF ~prob.has_D_inv
    \* pde_problem.D_inv_lst is not there: the attribute read fails
    THEN [prob |-> [prob EXCEPT !.source = IF Len(source.shape) = 3 THEN source
                                            ELSE expand_dims(source)],
          outcome |-> "AttributeError", v |-> None, g_tilde_lst |-> <<>>]
    ELSE The({ The({ up_pass_return(IF store_v THEN [prob1 EXCEPT !.v = ls[3]] ELSE prob1,
                                    ls,
                                    up_pass_levels(ls[4], 1, prob1.D_inv_lst,
                                                   prob1.BD_inv_lst, <<>>),
                                    Len(source.shape) = 3) :
                     ls \in {local_solve_stage_uniform_2D_ItI(prob1)} }) :
               prob1 \in {[prob EXCEPT !.source = IF Len(source.shape) = 3 THEN source
                                                   ELSE expand_dims(source)]} })

\* an upward pass that also stores the recomputed v on the problem
up_pass_storing_v(prob, source) == up_pass_core(prob, source, TRUE)

\* up_pass_uniform_2D_ItI: returns (v, g_tilde_lst) or raises; writes prob.source
up_pass_uniform_2D_ItI(prob, source) == up_pass_core(prob, source, FALSE)

----------------------------------------------------------------------------
(* The PDEProblem and build_solver.                                        *)

Dim(bool_2D) == IF bool_2D THEN 2 ELSE 3

\* leaves of the tree: a uniform tree of depth L, or (adaptive) the same tree
\* with one leaf refined once more
NLeaves(bool_2D, bool_uniform, L) ==
    LET c == Pow(2, Dim(bool_2D))
    IN  IF bool_uniform THEN Pow(c, L) ELSE Pow(c, L) + c - 1

\* A node of a 2D tree is the sequence of child indices leading to it from
\* the root; a tree is the set of its refined nodes (those given four
\* children).  Children 0, 1, 2, 3 are the SW, SE, NE and NW quarters.
ChildX(c) == IF c \in {1, 2} THEN 1 ELSE 0

ChildY(c) == IF c \in {2, 3} THEN 1 ELSE 0

\* the corner of a node in units of the cells of depth D
RECURSIVE NodeX(_, _)
NodeX(node, D) ==
    IF node = <<>> THEN 0 ELSE ChildX(Head(node)) * Pow(2, D - 1) + NodeX(Tail(node), D - 1)

RECURSIVE NodeY(_, _)
NodeY(node, D) ==
    IF node = <<>> THEN 0 ELSE ChildY(Head(node)) * Pow(2, D - 1) + NodeY(Tail(node), D - 1)

\* a node is a leaf iff its child list is empty
TreeLeaves(refined) == {Append(n, c) : n \in refined, c \in 0..3} \ refined

\* two leaves share a piece of an edge
FaceAdjacent(a, b, D) ==
    LET sa == Pow(2, D - Len(a))
        sb == Pow(2, D - Len(b))
        touch(u, su, v, sv) == u + su = v \/ v + sv = u
        overlap(u, su, v, sv) == u < v + sv /\ v < u + su
    IN  \/ touch(NodeX(a, D), sa, NodeX(b, D), sb)
             /\ overlap(NodeY(a, D), sa, NodeY(b, D), sb)
        \/ touch(NodeY(a, D), sa, NodeY(b, D), sb)
             /\ overlap(NodeX(a, D), sa, NodeX(b, D), sb)

\* the level restriction: face-adjacent leaves differ in depth by at most 1
LevelRestricted(refined) ==
    \A leaves \in {TreeLeaves(refined)} :
      \A D \in {CHOOSE d \in 0..(Cardinality(refined) + 1) :
                    \A n \in leaves : Len(n) <= d} :
        \A a \in leaves : \A b \in leaves :
            FaceAdjacent(a, b, D) => (Len(a) - Len(b) \in {-1, 0, 1})

Zeros(L) == [k \in 1..L |-> 0]

\* the refined nodes of the adaptive tree of a problem: every node above
\* depth L, and the first node of depth L
RefinedNodes(L) == UNION {[1..k -> 0..3] : k \in 0..(L - 1)} \cup {Zeros(L)}

\* PDEProblem.__init__: the precomputed operators have the shapes the
\* PDEProblem tests state
PDEProblem(bool_2D, bool_uniform, use_ItI, L, p, q, coeff, source) ==
    LET d == Dim(bool_2D)
        n == Pow(p, d)
        n_cheby_bdry == n - Pow(p - 2, d)
        n_gauss_bdry == IF bool_2D THEN 4 * q ELSE 6 * q * q
    IN  [domain |-> [bool_2D |-> bool_2D, bool_uniform |-> bool_uniform, L |-> L,
                     p |-> p, q |-> q,
                     n_leaves |-> NLeaves(bool_2D, bool_uniform, L),
                     refined |-> IF bool_2D /\ ~bool_uniform THEN RefinedNodes(L)
                                 ELSE {}],
         use_ItI |-> use_ItI,
         coefficients |-> Arr(<<NLeaves(bool_2D, bool_uniform, L), n>>,
                              <<Tag("coefficients", coeff)>>),
         source |-> source,
         D_xx |-> Arr(<<n, n>>, <<Tag("D_xx", 0)>>),
         P |-> Arr(<<n_cheby_bdry, n_gauss_bdry>>, <<Tag("P", 0)>>),
         Q |-> Arr(<<n_gauss_bdry, n>>, <<Tag("Q", 0)>>),
         QH |-> Arr(<<n_gauss_bdry, n>>, <<Tag("QH", 0)>>),
         G |-> Arr(<<n_cheby_bdry, n>>, <<Tag("G", 0)>>),
         S_lst |-> <<>>, g_tilde_lst |-> <<>>,
         has_D_inv |-> FALSE, D_inv_lst |-> <<>>, BD_inv_lst |-> <<>>,
         Y |-> None, v |-> None]

\* add_four_children(node, root=root, q=q) on a leaf of an adaptive 2D
\* domain, as a problem on the refined domain: three more leaves
add_four_children(prob, node) ==
    LET n == prob.domain.n_leaves + 3
    IN  [prob EXCEPT !.domain.refined = @ \cup {node},
                     !.domain.n_leaves = n,
                     !.coefficients = Arr(<<n>> \o Tail(@.shape), @.val),
                     !.source = IF IsNone(@) THEN @
                                ELSE Arr(<<n>> \o Tail(@.shape), @.val)]

\* a source array of the problem's leaf count: 2-D, or 3-D with nsrc sources
SourceArr(bool_2D, bool_uniform, L, p, ndim, nsrc, id) ==
    LET n == NLeaves(bool_2D, bool_uniform, L)
        pts == Pow(p, Dim(bool_2D))
    IN  IF ndim = 2 THEN Arr(<<n, pts>>, <<Tag("source", id)>>)
        ELSE Arr(<<n, pts, nsrc>>, <<Tag("source", id)>>)

\* the S-maps of a tree that is not a uniform 2D tree: shapes not modelled
OpaqueLevels(L, name, val) == [k \in 1..L |-> Arr(<<>>, <<Tag(name, k - 1)>> \o val)]

\* what build_solver attaches to the problem, given the outputs ls of the
\* local solve and m of the merge stage
build_attach(prob, ls, m) ==
    LET nosource == IsNone(prob.source)
        L == prob.domain.L
    IN  IF prob.domain.bool_2D /\ prob.domain.bool_uniform
        THEN [prob EXCEPT !.S_lst = m.S_lst,
                          !.g_tilde_lst = IF nosource THEN <<>> ELSE m.g_tilde_lst,
                          !.has_D_inv = prob.use_ItI,
                          !.D_inv_lst = IF prob.use_ItI THEN m.D_inv_lst ELSE <<>>,
                          !.BD_inv_lst = IF prob.use_ItI THEN m.BD_inv_lst ELSE <<>>,
                          !.Y = ls[1],
                          !.v = IF nosource THEN None ELSE ls[3]]
        ELSE [prob EXCEPT !.S_lst = IF prob.domain.bool_uniform
                                    THEN OpaqueLevels(L, "S", ls[2].val) ELSE <<>>,
                          !.g_tilde_lst = IF prob.domain.bool_uniform
                                          THEN OpaqueLevels(L, "g_tilde", ls[4].val)
                                          ELSE <<>>,
                          !.Y = ls[1],
                          !.v = IF nosource THEN None ELSE ls[3]]

\* build_solver: local solve, then merge; the outputs are attached to the problem.
\* A uniform 2D ItI problem without a source takes the no-source path, which
\* caches D_inv_lst and BD_inv_lst instead of v and g_tilde_lst; a unit
\* source stands in for the absent one in its local solve.
build_solver(prob) ==
    The({ The({ build_attach(prob, ls,
                    merge_stage_uniform_2D(ls[2], ls[4], prob.domain.L, prob.use_ItI)) :
                ls \in {IF prob.use_ItI THEN local_solve_stage_uniform_2D_ItI(probS)
                        ELSE local_solve_stage_uniform_2D_DtN(probS)} }) :
          probS \in {IF IsNone(prob.source)
                     THEN [prob EXCEPT !.source =
                              Arr(<<prob.domain.n_leaves, prob.D_xx.shape[1]>>,
                                  <<Tag("source", 0)>>)]
                     ELSE prob} })

----------------------------------------------------------------------------
(* The downward passes (hahps.down_pass).                                  *)

\* A uniform down pass applies the S-maps from the root down with each level's
\* particular data, then Y b + v on every leaf.  It reads its inputs only.
down_pass_uniform(boundary_data, S_lst, g_tilde_lst, Y, v) ==
    IF IsNone(v) \/ IsNone(Y) \/ Len(g_tilde_lst) # Len(S_lst)
    THEN [outcome |-> "TypeError", result |-> None]
    ELSE [outcome |-> "returned",
          result |-> Arr(<<Y.shape[1], Y.shape[2]>>,
                         <<Tag("soln", 0)>> \o boundary_data.val \o ListVal(S_lst)
                             \o ListVal(g_tilde_lst) \o Y.val \o v.val)]

\* An adaptive down pass walks the tree held by the problem.
down_pass_adaptive(prob, boundary_data) ==
    IF IsNone(prob.v) \/ IsNone(prob.Y)
    THEN [outcome |-> "TypeError", result |-> None]
    ELSE [outcome |-> "returned",
          result |-> Arr(<<prob.Y.shape[1], prob.Y.shape[2]>>,
                         <<Tag("soln", 0)>> \o boundary_data.val \o prob.Y.val
                             \o prob.v.val)]

----------------------------------------------------------------------------
(* solve (src/src/hahps/_solve.py).                                        *)

\* boundary data argument: a single array, or a list of arrays (one per side)
Bdry(is_list, id) == [is_list |-> is_list, val |-> <<Tag("boundary_data", id)>>]

\* _adaptive_solve
adaptive_solve(prob, boundary_data_lst) ==
    IF ~boundary_data_lst.is_list
    THEN [prob |-> prob, calls |-> <<>>, outcome |-> "ValueError", result |-> None]
    ELSE The({ [prob |-> prob,
                calls |-> <<IF prob.domain.bool_2D THEN "down_pass_adaptive_2D_DtN"
                            ELSE "down_pass_adaptive_3D_DtN">>,
                outcome |-> d.outcome, result |-> d.result] :
               d \in {down_pass_adaptive(prob, boundary_data_lst)} })

\* _up_then_down_pass
up_then_down_pass(prob, boundary_data, source) ==
    The({ IF up.outcome # "returned"
          THEN [prob |-> up.prob, calls |-> <<"up_pass_uniform_2D_ItI">>,
                outcome |-> up.outcome, result |-> None]
          ELSE The({ [prob |-> up.prob,
                      calls |-> <<"up_pass_uniform_2D_ItI", "down_pass_uniform_2D_ItI">>,
                      outcome |-> d.outcome, result |-> d.result] :
                     d \in {down_pass_uniform(boundary_data, up.prob.S_lst,
                                              up.g_tilde_lst, up.prob.Y, up.v)} }) :
          up \in {up_pass_uniform_2D_ItI(prob, source)} })

\* solve(pde_problem, boundary_data, source)
solve(prob, boundary_data, source) ==
    IF ~IsNone(source)
    THEN IF ~prob.domain.bool_2D \/ ~prob.use_ItI
         THEN [prob |-> prob, calls |-> <<>>, outcome |-> "ValueError", result |-> None]
         ELSE up_then_down_pass(prob, boundary_data, source)
    ELSE IF ~prob.domain.bool_uniform
    THEN adaptive_solve(prob, boundary_data)
    ELSE The({ [prob |-> prob,
                calls |-> <<IF prob.use_ItI THEN "down_pass_uniform_2D_ItI"
                            ELSE IF prob.domain.bool_2D THEN "down_pass_uniform_2D_DtN"
                            ELSE "down_pass_uniform_3D_DtN">>,
                outcome |-> d.outcome, result |-> d.result] :
               \* a list of boundary data is concatenated into a single array
               d \in {down_pass_uniform([boundary_data EXCEPT !.is_list = FALSE],
                                        prob.S_lst, prob.g_tilde_lst, prob.Y, prob.v)} })

\* the sources a caller may hand to solve for this problem
SourceChoices(prob) ==
    {None}
    \cup {SourceArr(prob.domain.bool_2D, prob.domain.bool_uniform, prob.domain.L,
                    prob.domain.p, ndim, MaxNsrc, id) : ndim \in {2, 3}, id \in 1..MaxData}

BdryChoices == {Bdry(is_list, id) : is_list \in BOOLEAN, id \in 1..MaxData}

NoArgs == [boundary_data |-> Bdry(FALSE, 0), source |-> None]

\* The problems build_solver is run on.  Only a uniform 2D ItI problem may be
\* built without a source.
BuiltProblems ==
    {build_solver(PDEProblem(b2, bu, it, L, MaxP, MaxQ, 1,
         IF ns THEN None ELSE SourceArr(b2, bu, L, MaxP, 2, 1, 0))) :
       <<b2, bu, it, L, ns>> \in
         {t \in BOOLEAN \X BOOLEAN \X BOOLEAN \X (1..MaxL) \X BOOLEAN :
             t[5] => (t[1] /\ t[2] /\ t[3])}}
    \cup
    \* adaptive 2D trees with one more leaf refined
    {build_solver(add_four_children(
         PDEProblem(TRUE, FALSE, FALSE, L, MaxP, MaxQ, 1,
                    SourceArr(TRUE, FALSE, L, MaxP, 2, 1, 0)),
         Append(Zeros(L), c))) : L \in 1..MaxL, c \in 0..1}

\* the fused controller at rest
NoCfg == [mode |-> "none", l |-> 0, n_leaves |-> 0, chunksize |-> 0, n_levels_fused |-> 0,
          n_chunks |-> 0, get_all_operators |-> FALSE, bdry_data |-> <<>>,
          bdry_data_chunksize |-> 0, upfront |-> FALSE, root_data |-> <<>>]

NoRet == [kind |-> "none", soln |-> <<>>, S_lst |-> <<>>, g_tilde_lst |-> <<>>]

NoOut == [op |-> "none", outcome |-> "none", source |-> None, local_source |-> None,
          Y |-> None, T |-> None, v |-> None, h |-> None,
          S_lst |-> <<>>, g_tilde_lst |-> <<>>, D_inv_lst |-> <<>>, BD_inv_lst |-> <<>>,
          up_v |-> None, up_g_tilde_lst |-> <<>>,
          asm_h |-> None, asm_g_tilde |-> None]

\* the arrays of a controller call: none deleted, none read after deletion
NoMem == [deleted |-> {}, stale |-> {}]

StagesIdle ==
    /\ sh_prob = PDEProblem(TRUE, TRUE, TRUE, 1, MaxP, MaxQ, 1, None)
    /\ sh_out = NoOut

\* no operator assembly has been called
NoFn == [op |-> "none"]

FnIdle ==
    /\ fn_in = NoFn
    /\ fn_out = NoFn

FusedIdle ==
    /\ f_cfg = NoCfg
    /\ f_pc = "idle"
    /\ f_i = 0
    /\ f_order = <<>>
    /\ f_T_lst = <<>>
    /\ f_soln_lst = <<>>
    /\ f_ret = NoRet
    /\ f_handed = <<>>
    /\ f_mem = NoMem

SolveInit ==
    /\ FusedIdle
    /\ FnIdle
    /\ StagesIdle
    /\ pde_problem \in BuiltProblems
    /\ built = pde_problem
    /\ calls = <<>>
    /\ outcome = "none"
    /\ result = None
    /\ args = NoArgs

\* one call of solve on the built problem
Solve(boundary_data, source) ==
    \E r \in {solve(pde_problem, boundary_data, source)} :
        /\ pde_problem' = r.prob
        /\ calls' = r.calls
        /\ outcome' = r.outcome
        /\ result' = r.result
        /\ args' = [boundary_data |-> boundary_data, source |-> source]
        /\ UNCHANGED built
        /\ UNCHANGED fusedVars
        /\ UNCHANGED fnVars
        /\ UNCHANGED stageVars
        /\ UNCHANGED fnVars

SolveNext ==
    \E boundary_data \in BdryChoices : \E source \in SourceChoices(pde_problem) :
        Solve(boundary_data, source)

SpecSolve == SolveInit /\ [][SolveNext]_vars

(***************************************************************************)
(* Claims about solve                                                      *)
(***************************************************************************)

\* a solve call has been made and the state shows its outcome
SolveCalled == outcome # "none"

\* C1: a solve call with a source on a problem that is not 2D, uniform and
\* ItI (3D, DtN or adaptive) raises ValueError and starts no up or down pass.
C1_SourceRejected ==
    (SolveCalled /\ ~IsNone(args.source)
       /\ ~(built.domain.bool_2D /\ built.domain.bool_uniform /\ built.use_ItI))
    => (outcome = "ValueError" /\ calls = <<>>)

\* C2: a solve call on an adaptive problem with boundary data given as one
\* array (not a list) raises ValueError before any up or down pass is called.
C2_AdaptiveNeedsList ==
    (SolveCalled /\ ~built.domain.bool_uniform /\ ~args.boundary_data.is_list)
    => (outcome = "ValueError" /\ calls = <<>>)

\* C7: after build, solve calls write no attribute of the problem other than
\* source, and what a call returns is what solve returns on the freshly built
\* problem for that call's boundary data and source.
C7_SolveReadsOnly ==
    /\ [pde_problem EXCEPT !.source = built.source] = built
    /\ SolveCalled =>
         \A r \in {solve(built, args.boundary_data, args.source)} :
             /\ outcome = r.outcome
             /\ result = r.result
             /\ calls = r.calls

\* C7 witness: a call with a source has written the source attribute, and a
\* later call without a source has returned a solution.
C7_Witness ==
    /\ pde_problem.source # built.source
    /\ IsNone(args.source)
    /\ outcome = "returned"
    /\ ~IsNone(result)

(***************************************************************************)
(* The fused (chunked) controller of hps/src/methods/fused_methods.py.     *)
(* A tree node is the sequence of the leaves merged into it, in order: a   *)
(* leaf k is <<k>>, a merge of four nodes is their concatenation.  The     *)
(* operators of a node (T, S, g_tilde) are identified with the node, and a *)
(* row of boundary data with the node whose boundary it lives on.          *)
(***************************************************************************)

Min(a, b) == IF a < b THEN a ELSE b

\* Python's seq[s:e], with 0-based s and e clamped to the length
PySlice(seq, s, e) ==
    LET hi == Min(e, Len(seq))
    IN  IF s >= hi THEN <<>> ELSE [k \in 1..(hi - s) |-> seq[s + k]]

RECURSIVE Concat(_)
Concat(lst) == IF lst = <<>> THEN <<>> ELSE Head(lst) \o Concat(Tail(lst))

\* boundary data that belongs to no node: the output of an S map applied to
\* the boundary data of another node
BadRow == <<-1>>

\* boundary data whose length is not the number of boundary points of the
\* node it is given for
WrongLengthRow == <<-2>>

HasWrongLength(bdry_data) ==
    \E k \in 1..Len(bdry_data) : bdry_data[k] = WrongLengthRow

\* the c-th child (c in 0..3) of a merged node
Quarter(node, c) == PySlice(node, c * (Len(node) \div 4), (c + 1) * (Len(node) \div 4))

\* the true node of the quadtree at the given height above the leaves
TreeNode(height, j) == [k \in 1..Pow(4, height) |-> j * Pow(4, height) + k - 1]

\* the local solve on the leaves start..end-1: one T (or R) node per leaf
local_solve_chunk(start, end) == [k \in 1..(end - start) |-> <<start + k - 1>>]

\* one level of the merge: every four consecutive nodes become their parent
quad_merge_nodes(nodes) ==
    [j \in 1..(Len(nodes) \div 4) |->
        nodes[4 * j - 3] \o nodes[4 * j - 2] \o nodes[4 * j - 1] \o nodes[4 * j]]

\* a build stage that merges whatever whole groups of four it is given
RECURSIVE uniform_build_stage_whole_groups(_, _)
uniform_build_stage_whole_groups(nodes, n_levels) ==
    IF n_levels <= 0
    THEN [ok |-> TRUE, S_lst |-> <<>>, g_tilde_lst |-> <<>>, T_last |-> nodes]
    ELSE LET parents == quad_merge_nodes(nodes)
             rest == uniform_build_stage_whole_groups(parents, n_levels - 1)
         IN  [ok |-> rest.ok, S_lst |-> <<parents>> \o rest.S_lst,
              g_tilde_lst |-> <<parents>> \o rest.g_tilde_lst,
              T_last |-> rest.T_last]

\* _uniform_build_stage_2D_DtN / _uniform_build_stage_2D_ItI on a list of
\* nodes: n_levels merges.  S_lst is ordered as the code orders it, leaf-most
\* level first.
RECURSIVE uniform_build_stage_2D(_, _)
uniform_build_stage_2D(nodes, n_levels) ==
    IF n_levels <= 0
    THEN [ok |-> TRUE, S_lst |-> <<>>, g_tilde_lst |-> <<>>, T_last |-> nodes]
    ELSE IF Len(nodes) = 0 \/ Len(nodes) % 4 # 0
    THEN [ok |-> FALSE, S_lst |-> <<>>, g_tilde_lst |-> <<>>, T_last |-> <<>>]
    ELSE LET parents == quad_merge_nodes(nodes)
             rest == uniform_build_stage_2D(parents, n_levels - 1)
         IN  [ok |-> rest.ok, S_lst |-> <<parents>> \o rest.S_lst,
              g_tilde_lst |-> <<parents>> \o rest.g_tilde_lst,
              T_last |-> rest.T_last]

\* vmapped_propogate_down_quad: the S map and the particular data of each
\* parent send the boundary data of that parent to the boundary data of its
\* four children
vmapped_propogate_down_quad(S_arr, bdry_data, v_int) ==
    [k \in 1..(4 * Len(S_arr)) |->
        LET g == (k - 1) \div 4 + 1
            c == (k - 1) % 4
        IN  IF bdry_data[g] = S_arr[g] /\ v_int[g] = S_arr[g]
            THEN Quarter(S_arr[g], c) ELSE BadRow]

DownRaised(err, applied) == [outcome |-> err, bdry_data |-> <<>>, applied |-> applied]

\* a loop that takes the particular data of the first list entry at every level
RECURSIVE partial_down_levels_first_v(_, _, _, _, _)
partial_down_levels_first_v(bdry_data, S_arr_lst, v_int_lst, level, applied) ==
    IF level < 1
    THEN [outcome |-> "returned", bdry_data |-> bdry_data, applied |-> applied]
    ELSE IF Len(v_int_lst) < level
    THEN DownRaised("IndexError", applied)
    ELSE IF Len(S_arr_lst[level]) # Len(bdry_data)
            \/ Len(v_int_lst[1]) # Len(bdry_data)
    THEN DownRaised("ValueError", applied)
    ELSE IF HasWrongLength(bdry_data)
    THEN DownRaised("TypeError", applied)
    ELSE partial_down_levels_first_v(
             vmapped_propogate_down_quad(S_arr_lst[level], bdry_data, v_int_lst[1]),
             S_arr_lst, v_int_lst, level - 1, Append(applied, level - 1))

\* the loop of _partial_down_pass and _partial_down_pass_ItI, from the last
\* entry of the lists to the first; applied lists the (0-based) levels whose
\* S map has been applied, in the order of application
RECURSIVE partial_down_levels(_, _, _, _, _)
partial_down_levels(bdry_data, S_arr_lst, v_int_lst, level, applied) ==
    IF level < 1
    THEN [outcome |-> "returned", bdry_data |-> bdry_data, applied |-> applied]
    ELSE IF Len(v_int_lst) < level
    THEN DownRaised("IndexError", applied)
    ELSE IF Len(S_arr_lst[level]) # Len(bdry_data)
            \/ Len(v_int_lst[level]) # Len(bdry_data)
    THEN DownRaised("ValueError", applied)
    ELSE IF HasWrongLength(bdry_data)
    \* the product of the S map and the data raises
    THEN DownRaised("TypeError", applied)
    ELSE partial_down_levels(
             vmapped_propogate_down_quad(S_arr_lst[level], bdry_data, v_int_lst[level]),
             S_arr_lst, v_int_lst, level - 1, Append(applied, level - 1))

\* _partial_down_pass: the debug log reads S_arr_lst[0] before the loop
partial_down_pass(bdry_data, S_arr_lst, v_int_lst) ==
    IF Len(S_arr_lst) = 0
    THEN DownRaised("IndexError", <<>>)
    ELSE partial_down_levels(bdry_data, S_arr_lst, v_int_lst, Len(S_arr_lst), <<>>)

\* _partial_down_pass_ItI
partial_down_pass_ItI(bdry_data, S_arr_lst, v_int_lst) ==
    partial_down_levels(bdry_data, S_arr_lst, v_int_lst, Len(S_arr_lst), <<>>)

\* leaf solutions whose particular solution is taken by position in the
\* chunk instead of by leaf
leaf_solutions_v_by_position(start, n_rows, bdry_data) ==
    [k \in 1..n_rows |-> [Y |-> start + k - 1, b |-> bdry_data[k], v |-> k - 1]]

\* the leaf solutions Y_i b_i + v_i of the leaves start.., one row per leaf
leaf_solutions(start, n_rows, bdry_data) ==
    [k \in 1..n_rows |-> [Y |-> start + k - 1, b |-> bdry_data[k], v |-> start + k - 1]]

\* _fused_all_single_chunk: local solve on all leaves, l merges, l levels
\* of down pass from the root boundary data, then the leaf solutions
fused_all_single_chunk(l) ==
    LET n_leaves == Pow(4, l)
        build == uniform_build_stage_2D(local_solve_chunk(0, n_leaves), l)
        down == partial_down_pass(<<TreeNode(l, 0)>>, build.S_lst, build.g_tilde_lst)
    IN  IF down.outcome # "returned" \/ Len(down.bdry_data) # n_leaves
        THEN [outcome |-> IF down.outcome # "returned" THEN down.outcome ELSE "ValueError",
              soln |-> <<>>]
        ELSE [outcome |-> "returned",
              soln |-> leaf_solutions(0, n_leaves, down.bdry_data)]

\* get_fused_chunksize_2D(p, dtype, n_leaves): the chunk size and the number
\* of merge levels done inside one chunk.  Nothing relates the pair to the
\* tree, so every pair is a possible outcome.
get_fused_chunksize_2D(n_leaves, l) == (0..(n_leaves + 1)) \X (0..l)

\* the rows whose index is i modulo the chunk count
bdry_data_strided(bdry_data, i, bdry_data_chunksize) ==
    LET n_chunks == IF bdry_data_chunksize = 0 THEN 1
                    ELSE Len(bdry_data) \div bdry_data_chunksize
    IN  [k \in 1..bdry_data_chunksize |->
            bdry_data[Min(Len(bdry_data), i + (k - 1) * n_chunks + 1)]]

\* bdry_data[i * bdry_data_chunksize : (i + 1) * bdry_data_chunksize]
bdry_data_slice(bdry_data, i, bdry_data_chunksize) ==
    PySlice(bdry_data, i * bdry_data_chunksize, (i + 1) * bdry_data_chunksize)

Raised(err) == [kind |-> err, soln |-> <<>>, S_lst |-> <<>>, g_tilde_lst |-> <<>>]

\* The head of _fused_local_solve_and_build_2D and of its ItI twin, up to
\* the chunk loop: the chunk count, the single-chunk early exit of the ItI
\* controller and the boundary rows per chunk.
fused_entry(mode, l, chunksize, n_levels_fused, has_bdry, bdry_data) ==
    LET n_leaves == Pow(4, l)
        n_chunks == IF chunksize = 0 THEN 0 ELSE n_leaves \div chunksize
        cfg == [mode |-> mode, l |-> l, n_leaves |-> n_leaves, chunksize |-> chunksize,
                n_levels_fused |-> n_levels_fused, n_chunks |-> n_chunks,
                get_all_operators |-> has_bdry, bdry_data |-> bdry_data,
                bdry_data_chunksize |->
                    IF has_bdry /\ n_chunks > 0 THEN Len(bdry_data) \div n_chunks ELSE 0,
                upfront |-> FALSE, root_data |-> <<>>]
        all == local_solve_chunk(0, n_leaves)
        build == uniform_build_stage_2D(all, l)
    IN  IF chunksize = 0
        THEN [cfg |-> cfg, pc |-> "error", ret |-> Raised("ZeroDivisionError"),
              order |-> <<>>]
        ELSE IF mode = "ItI" /\ n_chunks = 1
        THEN [cfg |-> cfg, pc |-> "done",
              ret |-> [kind |-> "merge_lists", soln |-> <<>>, S_lst |-> build.S_lst,
                       g_tilde_lst |-> build.g_tilde_lst],
              order |-> Concat(all)]
        ELSE IF has_bdry /\ n_chunks = 0
        THEN [cfg |-> cfg, pc |-> "error", ret |-> Raised("ZeroDivisionError"),
              order |-> <<>>]
        ELSE [cfg |-> cfg, pc |-> "loop", ret |-> NoRet, order |-> <<>>]

\* an array of the controller: its name, the chunk it belongs to (-1 for the
\* arrays built after the loop) and, for a merge list entry, its index
ArrayOf(name, chunk, level) == [arr |-> name, chunk |-> chunk, level |-> level]

\* arr.delete() for every arr of the set
Delete(mem, arrays) == [mem EXCEPT !.deleted = @ \cup arrays]

\* a computation that reads the arrays of the set
Read(mem, arrays) == [mem EXCEPT !.stale = @ \cup (arrays \cap mem.deleted)]

\* the entries of the lists a partial down pass applied: S and the
\* particular data of every applied level
AppliedArrays(chunk, applied) ==
    {ArrayOf(name, chunk, applied[k]) : name \in {"S", "g_tilde"}, k \in 1..Len(applied)}

\* the loop of _partial_down_pass: every level reads its S and v_int and
\* deletes them at the end of its pass
RECURSIVE ReadThenDelete(_, _, _)
ReadThenDelete(mem, chunk, applied) ==
    IF applied = <<>> THEN mem
    ELSE ReadThenDelete(
             Delete(Read(mem, AppliedArrays(chunk, <<Head(applied)>>)),
                    AppliedArrays(chunk, <<Head(applied)>>)),
             chunk, Tail(applied))

\* what a partial down pass reads and deletes: _partial_down_pass level by
\* level, _partial_down_pass_ItI every list entry after its loop
DownPassMem(mem, mode, chunk, down, n_levels) ==
    IF mode = "DtN" THEN ReadThenDelete(mem, chunk, down.applied)
    ELSE IF down.outcome # "returned" THEN Read(mem, AppliedArrays(chunk, down.applied))
    ELSE Delete(Read(mem, AppliedArrays(chunk, down.applied)),
                AppliedArrays(chunk, [k \in 1..n_levels |-> k - 1]))

\* the bdry_data a caller can hand to the controller: None, the boundary data
\* of the root, or data of another length
UpfrontBdry(l) ==
    {[given |-> FALSE, rows |-> <<>>],
     [given |-> TRUE, rows |-> <<TreeNode(l, 0)>>],
     [given |-> TRUE, rows |-> <<WrongLengthRow>>]}

\* a call of the controller: without boundary data (the build phase), or
\* with the boundary data given at once
FusedCall(mode, l, chunksize, n_levels_fused, bdry) ==
    LET e == fused_entry(mode, l, chunksize, n_levels_fused, bdry.given, bdry.rows)
    IN  /\ f_pc = "idle"
        /\ f_cfg' = [e.cfg EXCEPT !.upfront = bdry.given, !.root_data = bdry.rows]
        /\ f_pc' = e.pc
        /\ f_ret' = e.ret
        /\ f_order' = e.order
        /\ f_i' = 0
        /\ f_T_lst' = <<>>
        /\ f_soln_lst' = <<>>
        /\ f_handed' = <<>>
        /\ f_mem' = NoMem
        /\ UNCHANGED solveVars
        /\ UNCHANGED stageVars
        /\ UNCHANGED fnVars

\* one iteration of the chunk loop
FusedChunk ==
    LET i == f_i
        chunk_start_idx == i * f_cfg.chunksize
        chunk_end_idx == Min((i + 1) * f_cfg.chunksize, f_cfg.n_leaves)
        T_chunk == local_solve_chunk(chunk_start_idx, chunk_end_idx)
        build == uniform_build_stage_2D(T_chunk, f_cfg.n_levels_fused)
        bdry_data_i == bdry_data_slice(f_cfg.bdry_data, i, f_cfg.bdry_data_chunksize)
        down == IF f_cfg.mode = "DtN"
                THEN partial_down_pass(bdry_data_i, build.S_lst, build.g_tilde_lst)
                ELSE partial_down_pass_ItI(bdry_data_i, build.S_lst, build.g_tilde_lst)
        fail(err) == /\ f_pc' = "error"
                     /\ f_ret' = Raised(err)
                     /\ UNCHANGED <<f_i, f_T_lst, f_soln_lst>>
        \* the build stage reads the chunk's boundary operators and fluxes
        \* (R_arr_chunk, h_arr_chunk in the ItI controller)
        merged == Read(f_mem, {ArrayOf("DtN_arr_chunk", i, 0), ArrayOf("v_prime_chunk", i, 0)})
        operators_deleted ==
            IF f_cfg.mode = "DtN"
            THEN Delete(merged, {ArrayOf("DtN_arr_chunk", i, 0), ArrayOf("v_prime_chunk", i, 0)})
            ELSE merged
        passed_down == DownPassMem(operators_deleted, f_cfg.mode, i, down,
                                   Len(build.S_lst))
        solved == Read(passed_down, {ArrayOf("Y_arr_chunk", i, 0), ArrayOf("v_chunk", i, 0)})
    IN  /\ f_pc = "loop"
        /\ f_i < f_cfg.n_chunks
        /\ f_mem' = IF ~build.ok THEN merged
                    ELSE IF ~f_cfg.get_all_operators
                    THEN Delete(merged, {ArrayOf("Y_arr_chunk", i, 0), ArrayOf("v_chunk", i, 0)})
                    ELSE IF down.outcome # "returned" THEN passed_down
                    ELSE IF Len(down.bdry_data) # Len(T_chunk)
                            \/ HasWrongLength(down.bdry_data)
                    THEN Read(passed_down, {ArrayOf("Y_arr_chunk", i, 0)})
                    ELSE IF f_cfg.mode = "DtN" THEN solved
                    ELSE Delete(solved, {ArrayOf("Y_arr_chunk", i, 0), ArrayOf("v_chunk", i, 0)})
        /\ f_order' = f_order \o Concat(T_chunk)
        /\ f_handed' = IF f_cfg.get_all_operators /\ build.ok
                       THEN Append(f_handed, bdry_data_i) ELSE f_handed
        /\ IF ~build.ok
           THEN fail("ValueError")
           ELSE IF ~f_cfg.get_all_operators
           THEN /\ f_T_lst' = Append(f_T_lst, build.T_last)
                /\ f_i' = i + 1
                /\ UNCHANGED <<f_pc, f_ret, f_soln_lst>>
           ELSE IF down.outcome # "returned"
           THEN fail(down.outcome)
           ELSE IF Len(down.bdry_data) # Len(T_chunk) \/ HasWrongLength(down.bdry_data)
           \* the einsum of Y_arr_chunk and bdry_data_o raises
           THEN fail("ValueError")
           ELSE /\ f_soln_lst' = Append(f_soln_lst,
                      leaf_solutions(chunk_start_idx, Len(T_chunk), down.bdry_data))
                /\ f_i' = i + 1
                /\ UNCHANGED <<f_pc, f_ret, f_T_lst>>
        /\ UNCHANGED <<f_cfg>>
        /\ UNCHANGED solveVars
        /\ UNCHANGED stageVars
        /\ UNCHANGED fnVars

\* a concatenation that accepts an empty list
concatenate_anything(lst) == TRUE

\* jnp.concatenate(lst, axis=0) raises ValueError for an empty list
concatenate_ok(lst) == lst # <<>>

\* jnp.concatenate(lst, axis=0) of the arrays of the chunks: a new array,
\* or for a list of one array that array itself when one_is_alias
concatenate(lst_name, lst_len, out_name, one_is_alias) ==
    IF lst_len = 1 /\ one_is_alias THEN ArrayOf(lst_name, 0, 0)
    ELSE ArrayOf(out_name, -1, 0)

\* after the loop: the concatenated leaf solutions, or the merge of the
\* remaining l - n_levels_fused levels.  The DtN controller deletes the
\* arrays of the lists after concatenating them; the final merge reads the
\* concatenated arrays when it has a level to merge.
FusedReturn(one_is_alias) ==
    LET final == uniform_build_stage_2D(Concat(f_T_lst),
                                        f_cfg.l - f_cfg.n_levels_fused)
        DtN_arr == concatenate("T_last", Len(f_T_lst), "DtN_arr", one_is_alias)
        v_prime_arr == concatenate("h_last", Len(f_T_lst), "v_prime_arr", one_is_alias)
        lists_deleted ==
            IF f_cfg.mode = "DtN"
            THEN Delete(f_mem, {ArrayOf(name, k - 1, 0) :
                                  name \in {"T_last", "h_last"}, k \in 1..Len(f_T_lst)})
            ELSE f_mem
        merged == IF f_cfg.l - f_cfg.n_levels_fused >= 1
                  THEN Read(lists_deleted, {DtN_arr, v_prime_arr})
                  ELSE lists_deleted
    IN  /\ f_pc = "loop"
        /\ f_i >= f_cfg.n_chunks
        /\ IF f_cfg.get_all_operators
           THEN /\ UNCHANGED f_mem
                /\ IF ~concatenate_ok(f_soln_lst)
                   THEN f_pc' = "error" /\ f_ret' = Raised("ValueError")
                   ELSE /\ f_pc' = "done"
                        /\ f_ret' = [kind |-> "soln", soln |-> Concat(f_soln_lst),
                                     S_lst |-> <<>>, g_tilde_lst |-> <<>>]
           ELSE IF ~concatenate_ok(f_T_lst)
                THEN f_pc' = "error" /\ f_ret' = Raised("ValueError") /\ UNCHANGED f_mem
                ELSE IF merged.stale # {}
                \* the final merge is handed a deleted array
                THEN f_pc' = "error" /\ f_ret' = Raised("RuntimeError") /\ f_mem' = merged
                ELSE IF ~final.ok
                THEN f_pc' = "error" /\ f_ret' = Raised("ValueError") /\ f_mem' = merged
                ELSE /\ f_pc' = "done"
                     /\ f_ret' = [kind |-> "merge_lists", soln |-> <<>>,
                                  S_lst |-> final.S_lst,
                                  g_tilde_lst |-> final.g_tilde_lst]
                     /\ f_mem' = merged
        /\ UNCHANGED <<f_cfg, f_i, f_order, f_T_lst, f_soln_lst, f_handed>>
        /\ UNCHANGED solveVars
        /\ UNCHANGED stageVars
        /\ UNCHANGED fnVars

\* _down_pass_from_fused and _down_pass_from_fused_ItI: the top levels of the
\* down pass from the boundary data of the root, then the controller again,
\* with the resulting rows as bdry_data
DownPassFromFused(root) ==
    LET down == IF f_cfg.mode = "DtN"
                THEN partial_down_pass(root, f_ret.S_lst, f_ret.g_tilde_lst)
                ELSE partial_down_pass_ItI(root, f_ret.S_lst, f_ret.g_tilde_lst)
        e == fused_entry(f_cfg.mode, f_cfg.l, f_cfg.chunksize, f_cfg.n_levels_fused,
                         TRUE, down.bdry_data)
    IN  /\ f_pc = "done"
        /\ f_ret.kind = "merge_lists"
        /\ ~f_cfg.get_all_operators
        /\ IF down.outcome # "returned"
           THEN /\ f_pc' = "error"
                /\ f_ret' = Raised(down.outcome)
                /\ f_cfg' = [f_cfg EXCEPT !.get_all_operators = TRUE, !.root_data = root]
                /\ f_order' = <<>>
           ELSE /\ f_pc' = e.pc
                /\ f_ret' = e.ret
                /\ f_cfg' = [e.cfg EXCEPT !.root_data = root]
                /\ f_order' = e.order
        /\ f_i' = 0
        /\ f_T_lst' = <<>>
        /\ f_soln_lst' = <<>>
        /\ f_handed' = <<>>
        /\ f_mem' = DownPassMem(NoMem, f_cfg.mode, -1, down, Len(f_ret.S_lst))
        /\ UNCHANGED solveVars
        /\ UNCHANGED stageVars
        /\ UNCHANGED fnVars

FusedInit ==
    /\ FusedIdle
    /\ FnIdle
    /\ StagesIdle
    /\ pde_problem = build_solver(PDEProblem(TRUE, TRUE, TRUE, 1, MaxP, MaxQ, 1, None))
    /\ built = pde_problem
    /\ calls = <<>>
    /\ outcome = "none"
    /\ result = None
    /\ args = NoArgs

FusedNext ==
    \/ \E mode \in {"DtN", "ItI"} : \E l \in 1..MaxL :
         \E c \in get_fused_chunksize_2D(Pow(4, l), l) : \E bdry \in UpfrontBdry(l) :
            FusedCall(mode, l, c[1], c[2], bdry)
    \/ FusedChunk
    \/ \E one_is_alias \in BOOLEAN : FusedReturn(one_is_alias)
    \/ \E root \in {<<TreeNode(f_cfg.l, 0)>>, <<WrongLengthRow>>} : DownPassFromFused(root)

SpecFused == FusedInit /\ [][FusedNext]_vars

(***************************************************************************)
(* Claims about the fused controller                                       *)
(***************************************************************************)

\* the leaves 0 .. n-1 in increasing order
LeafOrder(n) == [k \in 1..n |-> k - 1]

\* the controller was called with bdry_data and has returned
ReturnedWithBdry == f_pc = "done" /\ f_cfg.get_all_operators

\* C3: whenever bdry_data is supplied, both controllers return the
\* concatenated leaf solutions, one row per leaf in leaf order, for every
\* chunk count >= 1, and never the lists of the merge stage.
C3_BdryGivesSolution ==
    ReturnedWithBdry =>
        /\ f_ret.kind = "soln"
        /\ Len(f_ret.soln) = f_cfg.n_leaves
        /\ \A k \in 1..Len(f_ret.soln) : f_ret.soln[k].Y = k - 1

\* C4: for every chunk size >= 1, once the chunk loop is over every leaf of
\* [0, n_leaves) has been handed to the local solve exactly once, in
\* increasing order.
C4_EveryLeafOnce ==
    (f_cfg.chunksize >= 1 /\ f_cfg.chunksize <= f_cfg.n_leaves
       /\ (f_pc = "done" \/ (f_pc = "loop" /\ f_i >= f_cfg.n_chunks)))
    => f_order = LeafOrder(f_cfg.n_leaves)

\* the two-phase DtN path is in its second phase, for a chunk size that
\* divides the leaf count
DividingDtNDownPass ==
    /\ f_cfg.mode = "DtN"
    /\ f_cfg.get_all_operators
    /\ ~f_cfg.upfront
    /\ f_cfg.root_data = <<TreeNode(f_cfg.l, 0)>>
    /\ f_cfg.chunksize >= 1
    /\ f_cfg.n_leaves % f_cfg.chunksize = 0

\* C5: for a chunk size that divides the leaf count, the two-phase chunked
\* DtN path hands chunk i the rows of boundary data of the subtree roots whose
\* leaves lie in chunk i, and gives every leaf the solution that
\* _fused_all_single_chunk gives it.
C5_ChunkedEqualsSingleChunk ==
    DividingDtNDownPass
    => /\ f_pc # "error"
       /\ \A k \in 1..Len(f_handed) :
            Concat(f_handed[k])
               = Concat(local_solve_chunk((k - 1) * f_cfg.chunksize, k * f_cfg.chunksize))
       /\ f_pc = "done" =>
            /\ f_ret.kind = "soln"
            /\ f_ret.soln = fused_all_single_chunk(f_cfg.l).soln

\* The part of C5 that holds: whenever the second phase gets as far as
\* handing rows to a chunk they are the rows of that chunk's subtree roots,
\* and whenever it returns, it returns the leaf solutions of
\* _fused_all_single_chunk.
ChunkRowsMatchWhenReturned ==
    DividingDtNDownPass
    => /\ \A k \in 1..Len(f_handed) :
            /\ Concat(f_handed[k])
                 = Concat(local_solve_chunk((k - 1) * f_cfg.chunksize, k * f_cfg.chunksize))
            /\ \A r \in 1..Len(f_handed[k]) :
                 \E j \in 0..f_cfg.n_leaves :
                    f_handed[k][r] = TreeNode(f_cfg.n_levels_fused, j)
       /\ f_pc = "done" =>
            /\ f_ret.kind = "soln"
            /\ fused_all_single_chunk(f_cfg.l).outcome = "returned"
            /\ f_ret.soln = fused_all_single_chunk(f_cfg.l).soln

\* the two-phase DtN path has returned after several chunks that were each
\* handed several rows of boundary data
SeveralChunksReturned ==
    /\ ReturnedWithBdry
    /\ DividingDtNDownPass
    /\ f_cfg.n_chunks >= 2
    /\ f_cfg.bdry_data_chunksize >= 2
    /\ Len(f_handed) = f_cfg.n_chunks
    /\ f_ret.kind = "soln"

(***************************************************************************)
(* The stages of a uniform 2D solve run one by one: the local solve, the   *)
(* merge stage on its outputs, and the upward pass on the cached lists.    *)
(***************************************************************************)

\* the uniform 2D problems the stages are run on, each with a source: a 2-D
\* source, or for an ItI problem also a 3-D one
StageProblems ==
    {PDEProblem(TRUE, TRUE, use_ItI, L, p, q, 1, SourceArr(TRUE, TRUE, L, p, 2, 1, id)) :
        <<use_ItI, L, p, q, id>> \in
            BOOLEAN \X (1..MaxL) \X ((MaxP - 1)..MaxP) \X (1..MaxQ) \X (1..MaxData)}
    \cup
    {PDEProblem(TRUE, TRUE, TRUE, L, p, q, 1, SourceArr(TRUE, TRUE, L, p, 3, nsrc, 1)) :
        <<L, p, q, nsrc>> \in
            (1..MaxL) \X ((MaxP - 1)..MaxP) \X (1..MaxQ) \X (1..MaxNsrc)}
    \cup
    \* coefficients that are zero everywhere: the operator of every leaf is
    \* the zero matrix, so A_ii and B are singular
    {PDEProblem(TRUE, TRUE, use_ItI, L, MaxP, MaxQ, 0, SourceArr(TRUE, TRUE, L, MaxP, 2, 1, 1)) :
        <<use_ItI, L>> \in BOOLEAN \X (1..MaxL)}

StagesInit ==
    /\ FusedIdle
    /\ FnIdle
    /\ sh_prob \in StageProblems
    /\ sh_out = NoOut
    /\ pde_problem = build_solver(PDEProblem(TRUE, TRUE, TRUE, 1, MaxP, MaxQ, 1, None))
    /\ built = pde_problem
    /\ calls = <<>>
    /\ outcome = "none"
    /\ result = None
    /\ args = NoArgs

\* the local solve stage on every leaf
LocalSolve ==
    /\ sh_out.op = "none"
    /\ \E ls \in {IF sh_prob.use_ItI THEN local_solve_stage_uniform_2D_ItI(sh_prob)
                  ELSE local_solve_stage_uniform_2D_DtN(sh_prob)} :
         sh_out' = [sh_out EXCEPT !.op = "local_solve", !.outcome = "returned",
                                  !.local_source = sh_prob.source,
                                  !.Y = ls[1], !.T = ls[2], !.v = ls[3], !.h = ls[4]]
    /\ UNCHANGED sh_prob
    /\ UNCHANGED solveVars
    /\ UNCHANGED fusedVars
    /\ UNCHANGED fnVars

\* the merge stage on the outputs of the local solve; an ItI merge caches
\* D_inv_lst and BD_inv_lst on the problem
MergeStage ==
    /\ sh_out.op = "local_solve"
    /\ \E m \in {merge_stage_uniform_2D(sh_out.T, sh_out.h, sh_prob.domain.L,
                                        sh_prob.use_ItI)} :
         /\ sh_out' = [sh_out EXCEPT !.op = "merge",
                                     !.outcome = IF m.ok THEN "returned" ELSE "ValueError",
                                     !.S_lst = m.S_lst, !.g_tilde_lst = m.g_tilde_lst,
                                     !.D_inv_lst = m.D_inv_lst,
                                     !.BD_inv_lst = m.BD_inv_lst]
         /\ sh_prob' = IF sh_prob.use_ItI
                       THEN [sh_prob EXCEPT !.has_D_inv = TRUE, !.D_inv_lst = m.D_inv_lst,
                                            !.BD_inv_lst = m.BD_inv_lst,
                                            !.S_lst = m.S_lst, !.Y = sh_out.Y]
                       ELSE sh_prob
    /\ UNCHANGED solveVars
    /\ UNCHANGED fusedVars
    /\ UNCHANGED fnVars

\* the upward pass for a source, on the lists the merge stage cached
UpPass(source) ==
    /\ sh_out.op = "merge"
    /\ sh_prob.use_ItI
    /\ \E up \in {up_pass_uniform_2D_ItI(sh_prob, source)} :
         /\ sh_out' = [sh_out EXCEPT !.op = "up_pass", !.outcome = up.outcome,
                                     !.source = source,
                                     !.up_v = up.v, !.up_g_tilde_lst = up.g_tilde_lst]
         /\ sh_prob' = up.prob
    /\ UNCHANGED solveVars
    /\ UNCHANGED fusedVars
    /\ UNCHANGED fnVars

\* vmapped_assemble_boundary_data on the leaves' h (with its source axis)
\* and the D_inv and BD_inv of the first merge level
AssembleBoundaryData ==
    /\ sh_out.op = "merge"
    /\ sh_out.outcome = "returned"
    /\ sh_prob.use_ItI
    /\ \E h_in \in {expand_dims(sh_out.h)} :
         \E a \in {vmapped_assemble_boundary_data(
                      Arr(<<h_in.shape[1] \div 4, 4, h_in.shape[2], h_in.shape[3]>>,
                          h_in.val),
                      sh_out.D_inv_lst[1], sh_out.BD_inv_lst[1], 0)} :
            sh_out' = [sh_out EXCEPT !.op = "assemble",
                                     !.outcome = IF a.ok THEN "returned" ELSE "ValueError",
                                     !.asm_h = a.h, !.asm_g_tilde = a.g_tilde]
    /\ UNCHANGED sh_prob
    /\ UNCHANGED solveVars
    /\ UNCHANGED fusedVars
    /\ UNCHANGED fnVars

StagesNext ==
    \/ LocalSolve
    \/ MergeStage
    \/ AssembleBoundaryData
    \/ \E source \in SourceChoices(sh_prob) \ {None} : UpPass(source)

SpecStages == StagesInit /\ [][StagesNext]_vars

(***************************************************************************)
(* Claims about the stages                                                 *)
(***************************************************************************)

StageP2 == sh_prob.domain.p * sh_prob.domain.p

StageQ4 == 4 * sh_prob.domain.q

\* the upward pass has run on a tree of depth L >= 1 with L cached entries
UpPassRan ==
    /\ sh_out.op = "up_pass"
    /\ sh_prob.domain.L >= 1
    /\ Len(sh_prob.D_inv_lst) = sh_prob.domain.L
    /\ Len(sh_prob.BD_inv_lst) = sh_prob.domain.L

\* C6: the upward pass on the cached D_inv_lst and BD_inv_lst, for the
\* source the problem was merged with, returns the v of the local solve and
\* the g_tilde of the merge stage at every level.
C6_UpPassEqualsSourceAware ==
    (UpPassRan /\ sh_out.source = sh_out.local_source)
    => /\ sh_out.outcome = "returned"
       /\ sh_out.up_v = sh_out.v
       /\ sh_out.up_g_tilde_lst = sh_out.g_tilde_lst

\* C8: the upward pass returns without error; a source (n_leaves, p^2) gives
\* v (n_leaves, p^2) and L g_tilde arrays without a source axis, a source
\* (n_leaves, p^2, nsrc) gives outputs that keep the trailing nsrc axis.
C8_UpPassShapes ==
    UpPassRan =>
        LET n == sh_prob.domain.n_leaves
            multi == Len(sh_out.source.shape) = 3
            nsrc == IF multi THEN sh_out.source.shape[3] ELSE 1
        IN  /\ sh_out.outcome = "returned"
            /\ Len(sh_out.up_g_tilde_lst) = sh_prob.domain.L
            /\ sh_out.up_v.shape = IF multi THEN <<n, StageP2, nsrc>> ELSE <<n, StageP2>>
            /\ \A i \in 1..Len(sh_out.up_g_tilde_lst) :
                 Len(sh_out.up_g_tilde_lst[i].shape) = IF multi THEN 3 ELSE 2

C10_MergeListShapes ==
    (sh_out.op = "merge" /\ sh_prob.domain.L >= 1)
    => LET L == sh_prob.domain.L
           q == sh_prob.domain.q
           n_root_bdry == 4 * Pow(2, L) * q
       IN  /\ sh_out.outcome = "returned"
           /\ Len(sh_out.S_lst) = L
           /\ Len(sh_out.g_tilde_lst) = L
           /\ \A i \in 0..(L - 1) :
                /\ sh_out.S_lst[i + 1].shape[1] = Pow(4, L - 1 - i)
                /\ sh_out.g_tilde_lst[i + 1].shape[1] = Pow(4, L - 1 - i)
                /\ sh_prob.use_ItI =>
                     sh_out.S_lst[i + 1].shape
                        = <<Pow(4, L - 1 - i), Pow(2, i) * 8 * q, Pow(2, i) * 8 * q>>
           /\ ~sh_prob.use_ItI =>
                sh_out.S_lst[L].shape = <<1, n_root_bdry \div 2, n_root_bdry>>
           /\ sh_prob.use_ItI =>
                /\ Len(sh_out.D_inv_lst) = L
                /\ Len(sh_out.BD_inv_lst) = L

\* C10 witness: the merge stage has returned for a DtN tree of the largest
\* depth
C10_Witness ==
    /\ sh_out.op = "merge"
    /\ sh_out.outcome = "returned"
    /\ ~sh_prob.use_ItI
    /\ sh_prob.domain.L = MaxL
    /\ Len(sh_out.S_lst) = MaxL

(***************************************************************************)
(* Further claims about solve                                              *)
(***************************************************************************)

\* the built problem lives on an adaptive 2D tree that breaks the level
\* restriction
UnrestrictedTree ==
    /\ built.domain.bool_2D
    /\ ~built.domain.bool_uniform
    /\ ~LevelRestricted(built.domain.refined)

\* C14: solve on an adaptive tree with two face-adjacent leaves more than one
\* level apart ends in an error before a down pass is called; every tree on
\* which solve calls a pass obeys the level restriction.
C14_LevelRestrictionChecked ==
    (SolveCalled /\ UnrestrictedTree) =>
        /\ outcome # "returned"
        /\ calls = <<>>

\* C23: solve with a source runs the upward pass to its end and then the
\* down pass, which is given the v and g_tilde_lst that upward pass returned
\* together with the S_lst and Y cached at build time.
C23_DownPassGetsUpPassOutputs ==
    (SolveCalled /\ ~IsNone(args.source)
       /\ built.domain.bool_2D /\ built.domain.bool_uniform /\ built.use_ItI) =>
        /\ calls = <<"up_pass_uniform_2D_ItI", "down_pass_uniform_2D_ItI">>
        /\ outcome = "returned"
        /\ \A up \in {up_pass_uniform_2D_ItI(built, args.source)} :
              result = down_pass_uniform(args.boundary_data, built.S_lst,
                                         up.g_tilde_lst, built.Y, up.v).result

(***************************************************************************)
(* Further claims about the fused controller                               *)
(***************************************************************************)

\* the solution Y_i b_i + v_i of leaf i, with b_i the boundary data of leaf i
LeafSolution(i) == [Y |-> i, b |-> <<i>>, v |-> i]

\* C11: whenever leaf solutions are returned, by the chunked controllers or
\* by _fused_all_single_chunk, there is one row per leaf and row i is Y_i
\* applied to the boundary data of leaf i plus v_i, with Y_i and v_i the
\* outputs of the local solve of leaf i.
C11_LeafSolutionIsYbPlusV ==
    /\ (f_pc = "done" /\ f_ret.kind = "soln") =>
          f_ret.soln = [k \in 1..f_cfg.n_leaves |-> LeafSolution(k - 1)]
    /\ f_pc # "idle" =>
          \A r \in {fused_all_single_chunk(f_cfg.l)} :
              r.outcome = "returned" =>
                  r.soln = [k \in 1..f_cfg.n_leaves |-> LeafSolution(k - 1)]

\* leaf solutions have been returned after a loop of several chunks of
\* several leaves each
C11_Witness ==
    /\ f_pc = "done"
    /\ f_ret.kind = "soln"
    /\ f_cfg.n_chunks >= 2
    /\ f_cfg.chunksize >= 2
    /\ Len(f_ret.soln) = f_cfg.n_leaves
    /\ f_ret.soln[f_cfg.n_leaves] = LeafSolution(f_cfg.n_leaves - 1)

\* the controller or the fused down pass was given boundary data of a wrong
\* length
WrongLengthGiven == HasWrongLength(f_cfg.root_data)

\* C13: boundary data of a wrong length is rejected with an error at the
\* entry of the fused down pass, before an S map is applied and before any
\* rows are handed to a chunk.
C13_WrongLengthRejectedAtEntry ==
    WrongLengthGiven =>
        /\ f_pc # "done"
        /\ f_handed = <<>>

\* the controller was called and get_fused_chunksize_2D gave a chunk size of
\* 0 or one larger than the leaf count
NoChunk ==
    /\ f_cfg.mode # "none"
    /\ (f_cfg.chunksize = 0 \/ f_cfg.chunksize > f_cfg.n_leaves)

\* C15: with a chunk size of 0, or one so large that n_leaves // chunksize is
\* 0, the controller never returns a result and runs no local solve and no
\* merge; once it has stopped it has stopped with an error.
C15_NoChunkIsAnError ==
    NoChunk =>
        /\ f_pc \in {"loop", "error"}
        /\ f_pc = "loop" => (f_i = 0 /\ f_cfg.n_chunks = 0 /\ f_ret = NoRet)
        /\ f_pc = "error" => f_ret.kind \in {"ZeroDivisionError", "ValueError"}
        /\ f_order = <<>>
        /\ f_T_lst = <<>>
        /\ f_soln_lst = <<>>
        /\ f_handed = <<>>

\* the controller has stopped with an error for a chunk size larger than the
\* leaf count, after the (empty) chunk loop
C15_Witness ==
    /\ NoChunk
    /\ f_cfg.chunksize > f_cfg.n_leaves
    /\ ~f_cfg.get_all_operators
    /\ f_pc = "error"
    /\ f_ret.kind = "ValueError"

\* the build phase (no boundary data) of the chunk loop has returned
BuildPhaseReturned ==
    /\ f_pc = "done"
    /\ f_ret.kind = "merge_lists"
    /\ ~f_cfg.get_all_operators
    /\ f_i = f_cfg.n_chunks
    /\ f_i >= 1

\* C24: when the build phase returns, every chunk was merged n_levels_fused
\* levels, the concatenated results were merged l - n_levels_fused further
\* levels, every leaf lies under the one root that remains, and the chunks
\* cover the leaves in order.
C24_EveryLeafMergedLTimes ==
    BuildPhaseReturned =>
        /\ \A k \in 1..Len(f_T_lst) : \A r \in 1..Len(f_T_lst[k]) :
              Len(f_T_lst[k][r]) = Pow(4, f_cfg.n_levels_fused)
        /\ Len(f_ret.S_lst) = f_cfg.l - f_cfg.n_levels_fused
        /\ Concat(Concat(f_T_lst)) = TreeNode(f_cfg.l, 0)
        /\ \A k \in 1..Len(f_ret.S_lst) : \A r \in 1..Len(f_ret.S_lst[k]) :
              Len(f_ret.S_lst[k][r]) = Pow(4, f_cfg.n_levels_fused + k)
        /\ f_ret.S_lst # <<>> => f_ret.S_lst[Len(f_ret.S_lst)] = <<TreeNode(f_cfg.l, 0)>>
        /\ f_ret.S_lst = <<>> => Concat(f_T_lst) = <<TreeNode(f_cfg.l, 0)>>

\* the build phase returned after several chunks, each merged at least one
\* level, with at least one level left for the final merge
C24_Witness ==
    /\ BuildPhaseReturned
    /\ f_cfg.n_chunks >= 2
    /\ f_cfg.n_levels_fused >= 1
    /\ f_cfg.l - f_cfg.n_levels_fused >= 1
    /\ f_ret.S_lst[Len(f_ret.S_lst)] = <<TreeNode(f_cfg.l, 0)>>

\* C25: in the controller and the partial down passes no array is read after
\* delete() was called on it or on an alias of it.
C25_NoReadAfterDelete == f_mem.stale = {}

(***************************************************************************)
(* Further claims about the stages                                         *)
(***************************************************************************)

\* the coefficients of the problem vanish everywhere, so that A_ii (DtN) and
\* B (ItI) are singular on every leaf
SingularLeaves == sh_prob.coefficients.val = <<Tag("coefficients", 0)>>

\* C12: when A_ii (DtN) or B (ItI) of a leaf is singular the local solve ends
\* in the error SingularLeafOperator and returns no Y, T, v, h.
C12_SingularLeafRaises ==
    (SingularLeaves /\ sh_out.op = "local_solve") =>
        /\ sh_out.outcome = "SingularLeafOperator"
        /\ IsNone(sh_out.Y) /\ IsNone(sh_out.T) /\ IsNone(sh_out.v) /\ IsNone(sh_out.h)

\* C17: the h that assemble_boundary_data returns for the merged nodes is the
\* children's exterior data minus BD_inv applied to the children's interface
\* data h_int_child.
C17_ParentHFromInterfaceData ==
    (sh_out.op = "assemble" /\ sh_out.outcome = "returned") =>
        SubSeq(sh_out.asm_h.val, 1, 3)
            = <<Tag("h", 1), Tag("h_ext_child", 0), Tag("BD_inv @ h_int_child", 0)>>

\* C22: in the upward pass merge level i takes the h of level i-1 (the
\* leaves' h for i = 0) in groups of 4 siblings with D_inv_lst[i] and
\* BD_inv_lst[i]; the node count is divided by 4 and the boundary length
\* doubled at every level, and one node remains after the last level.
C22_UpPassLevelsChain ==
    UpPassRan =>
        /\ sh_out.outcome = "returned"
        /\ Len(sh_out.up_g_tilde_lst) = sh_prob.domain.L
        /\ \A i \in 1..Len(sh_out.up_g_tilde_lst) :
             /\ sh_out.up_g_tilde_lst[i].shape[1] = Pow(4, sh_prob.domain.L - i)
             /\ sh_out.up_g_tilde_lst[i].shape[2] = StageQ4 * Pow(2, i)
             /\ Head(sh_out.up_g_tilde_lst[i].val) = Tag("g_tilde", i - 1)

(***************************************************************************)
(* The assembly of a leaf's differential operator                          *)
(* (src/src/hahps/local_solve/_uniform_2D_DtN.py).  An operator            *)
(* sum_t diag(c_t) D_t is held as the function t |-> c_t: for every         *)
(* precomputed operator D_t the factor each of its rows is scaled by.      *)
(***************************************************************************)

\* the order of coeffs_lst in _gather_coeffs_2D
GatherOrder2D == <<"D_xx", "D_xy", "D_yy", "D_x", "D_y", "I">>

\* the order of the jnp.stack that builds diff_ops
StackOrder2D == <<"D_xx", "D_xy", "D_yy", "D_x", "D_y", "I">>

\* the rows of a leaf operator: one per Chebyshev point
OperatorRows == 1..(MaxP * MaxP)

ZeroRows == [a \in OperatorRows |-> 0]

\* a coefficient array of one leaf; CoeffArray(0) vanishes everywhere
CoeffArray(d) == [a \in OperatorRows |-> d * a]

\* an optional coefficient argument: None, or an array
NoCoeff == [present |-> FALSE, val |-> ZeroRows]

SomeCoeff(d) == [present |-> TRUE, val |-> CoeffArray(d)]

IsPresent(c) == c.present

\* _gather_coeffs_2D on the optional coefficients c (term |-> argument)
gather_coeffs_2D(c) ==
    LET coeffs_lst == [k \in 1..Len(GatherOrder2D) |-> c[GatherOrder2D[k]]]
        kept == SelectSeq(coeffs_lst, IsPresent)
    IN  [coeffs_gathered |-> [k \in 1..Len(kept) |-> kept[k].val],
         which_coeffs |-> [k \in 1..Len(coeffs_lst) |-> coeffs_lst[k].present]]

\* an _add that treats the coefficient as an offset from one
add_one_plus(out, coeff, diff_op) ==
    [out EXCEPT ![diff_op] = [a \in OperatorRows |-> @[a] + coeff[a] + 1]]

\* _add: out + einsum("ab,a->ab", diff_op, coeff)
add(out, coeff, diff_op) ==
    [out EXCEPT ![diff_op] = [a \in DOMAIN coeff |-> out[diff_op][a] + coeff[a]]]

\* _not
not(out, coeff, diff_op) == out

\* a loop body that reads the coefficient at the loop index
add_or_not_by_loop_index(i, carry) ==
    LET coeff == carry.coeffs_arr[Min(i, Len(carry.coeffs_arr) - 1) + 1]
    IN  [carry EXCEPT
           !.out = IF carry.which_coeffs[i + 1]
                   THEN add(carry.out, coeff, carry.diff_ops[i + 1])
                   ELSE not(carry.out, coeff, carry.diff_ops[i + 1]),
           !.counter = IF carry.which_coeffs[i + 1] THEN @ + 1 ELSE @]

\* add_or_not: the body of the loop of assemble_diff_operator.  The operand
\* coeffs_arr[counter] is read on every pass; an index past the end reads
\* the last entry.
add_or_not(i, carry) ==
    LET coeff == carry.coeffs_arr[Min(carry.counter, Len(carry.coeffs_arr) - 1) + 1]
    IN  [carry EXCEPT
           !.out = IF carry.which_coeffs[i + 1]
                   THEN add(carry.out, coeff, carry.diff_ops[i + 1])
                   ELSE not(carry.out, coeff, carry.diff_ops[i + 1]),
           !.counter = IF carry.which_coeffs[i + 1] THEN @ + 1 ELSE @]

\* jax.lax.fori_loop(lower, upper, add_or_not, init_val)
RECURSIVE fori_loop(_, _, _)
fori_loop(lower, upper, val) ==
    IF lower >= upper THEN val
    ELSE fori_loop(lower + 1, upper, add_or_not(lower, val))

\* assemble_diff_operator(coeffs_arr, which_coeffs, diff_ops)
assemble_diff_operator(coeffs_arr, which_coeffs, diff_ops) ==
    fori_loop(0, Len(which_coeffs),
              [out |-> [t \in {diff_ops[k] : k \in 1..Len(diff_ops)} |-> ZeroRows],
               coeffs_arr |-> coeffs_arr, diff_ops |-> diff_ops,
               which_coeffs |-> which_coeffs, counter |-> 0]).out

\* the optional coefficients of a problem: each term absent, zero everywhere
\* or one of MaxData arrays, with at least one term present
CoeffChoices ==
    {c \in [{GatherOrder2D[k] : k \in 1..Len(GatherOrder2D)} ->
               {NoCoeff} \cup {SomeCoeff(d) : d \in 0..MaxData}] :
        \E t \in DOMAIN c : c[t].present}

----------------------------------------------------------------------------
(* Side-length scaling of the operators of a leaf of an adaptive 3D tree.   *)
(* A stacked operator is held as its name and the rational factor that      *)
(* multiplies the operator of the reference cube.                           *)

RECURSIVE Gcd(_, _)
Gcd(a, b) == IF b = 0 THEN a ELSE Gcd(b, a % b)

\* the rational n/d in lowest terms
Frac(n, d) == [num |-> n \div Gcd(n, d), den |-> d \div Gcd(n, d)]

FracMul(x, y) == Frac(x.num * y.num, x.den * y.den)

FracDiv(x, y) == Frac(x.num * y.den, x.den * y.num)

\* the order of the arguments handed to _gather_coeffs_3D
GatherOrder3D ==
    <<"D_xx", "D_xy", "D_yy", "D_xz", "D_yz", "D_zz", "D_x", "D_y", "D_z", "I">>

\* the order of the jnp.stack that builds diff_ops in 3D
StackOrder3D ==
    <<"D_xx", "D_xy", "D_yy", "D_xz", "D_yz", "D_zz", "D_x", "D_y", "D_z", "I">>

\* the rows of a 3D leaf operator: one per Chebyshev point
OperatorRows3D == 1..(MaxP * MaxP * MaxP)

ZeroRows3D == [a \in OperatorRows3D |-> 0]

CoeffArray3D(d) == [a \in OperatorRows3D |-> d * a]

NoCoeff3D == [present |-> FALSE, val |-> ZeroRows3D]

SomeCoeff3D(d) == [present |-> TRUE, val |-> CoeffArray3D(d)]

\* _gather_coeffs_3D on the optional coefficients c (term |-> argument)
gather_coeffs_3D(c) ==
    LET coeffs_lst == [k \in 1..Len(GatherOrder3D) |-> c[GatherOrder3D[k]]]
        kept == SelectSeq(coeffs_lst, IsPresent)
    IN  [coeffs_gathered |-> [k \in 1..Len(kept) |-> kept[k].val],
         which_coeffs |-> [k \in 1..Len(coeffs_lst) |-> coeffs_lst[k].present]]

\* the stacked operators of the reference cube
diff_ops_3D_stack ==
    [k \in 1..Len(StackOrder3D) |-> [op |-> StackOrder3D[k], scale |-> Frac(1, 1)]]

\* assemble_diff_operator as imported by the adaptive 3D local solve: the
\* loop of add_or_not over operators of p**3 rows
assemble_diff_operator_adaptive(coeffs_arr, which_coeffs, diff_ops) ==
    fori_loop(0, Len(which_coeffs),
              [out |-> [t \in {diff_ops[k] : k \in 1..Len(diff_ops)} |-> ZeroRows3D],
               coeffs_arr |-> coeffs_arr, diff_ops |-> diff_ops,
               which_coeffs |-> which_coeffs, counter |-> 0]).out

\* precompute_Q_3D_DtN(p, q, D_x, D_y, D_z): the flux operator of the six
\* faces, built from the three first derivatives it is given
precompute_Q_3D_DtN(p, q, D_x, D_y, D_z) ==
    [shape |-> <<6 * q * q, p * p * p>>, D_x |-> D_x, D_y |-> D_y, D_z |-> D_z]

\* diff_ops.at[lo:hi].set(diff_ops[lo:hi] / divisor)
DivideSlice(diff_ops, lo, hi, divisor) ==
    [k \in 1..Len(diff_ops) |->
        IF lo < k /\ k <= hi
        THEN [diff_ops[k] EXCEPT !.scale = FracDiv(@, divisor)]
        ELSE diff_ops[k]]

\* a preparation that divides every derivative operator by half_side_len
prep_dividing_once(sidelen, coeffs_arr, which_coeffs, diff_ops_3D, p, q) ==
    The({ The({ [diff_operator |->
                    assemble_diff_operator_adaptive(coeffs_arr, which_coeffs, scaled),
                 Q_D |-> precompute_Q_3D_DtN(p, q, scaled[7], scaled[8], scaled[9])]
                : scaled \in {DivideSlice(diff_ops_3D, 0, 9, half_side_len)} })
          : half_side_len \in {FracDiv(sidelen, Frac(2, 1))} })

\* _prep_nonuniform_refinement_diff_operators_3D
prep_nonuniform_refinement_diff_operators_3D(sidelen, coeffs_arr, which_coeffs, diff_ops_3D, p, q) ==
    The({ The({ [diff_operator |->
                    assemble_diff_operator_adaptive(coeffs_arr, which_coeffs, scaled),
                 Q_D |-> precompute_Q_3D_DtN(p, q, scaled[7], scaled[8], scaled[9])]
                : scaled \in {DivideSlice(
                                 DivideSlice(diff_ops_3D, 0, 6,
                                             FracMul(half_side_len, half_side_len)),
                                 6, 9, half_side_len)} })
          : half_side_len \in {FracDiv(sidelen, Frac(2, 1))} })

\* the side lengths of the leaves: a root side halved at every level
Sidelens == {Frac(s, Pow(2, d)) : s \in 1..MaxData, d \in 0..MaxL}

\* the optional coefficients of a 3D problem: each term absent or an array
\* of its own, with at least one term present
CoeffChoices3D ==
    {[t \in {GatherOrder3D[k] : k \in 1..Len(GatherOrder3D)} |->
         IF t \in {GatherOrder3D[k] : k \in given}
         THEN SomeCoeff3D(CHOOSE k \in given : GatherOrder3D[k] = t)
         ELSE NoCoeff3D]
       : given \in (SUBSET (1..Len(GatherOrder3D))) \ {{}}}

----------------------------------------------------------------------------
(* assemble_boundary_data entry by entry.  The four children a, b, c, d of  *)
(* a merged node are its SW, SE, NE and NW quarters; a child's side has     *)
(* nside points and length 2 * nside, so the point k of a side lies at      *)
(* 2k - 1 along it.  An entry of a boundary vector is held as the child it  *)
(* belongs to and the point of the plane it lives on.                       *)

\* the boundary vector of child c (0..3): its sides bottom, right, top, left,
\* counter-clockwise
ChildBoundary(c, nside) ==
    LET x0 == IF c \in {1, 2} THEN 2 * nside ELSE 0
        y0 == IF c \in {2, 3} THEN 2 * nside ELSE 0
        at(x, y) == [child |-> c, pt |-> <<x, y>>]
    IN  [k \in 1..nside |-> at(x0 + 2 * k - 1, y0)]
        \o [k \in 1..nside |-> at(x0 + 2 * nside, y0 + 2 * k - 1)]
        \o [k \in 1..nside |-> at(x0 + 2 * nside - (2 * k - 1), y0 + 2 * nside)]
        \o [k \in 1..nside |-> at(x0, y0 + 2 * nside - (2 * k - 1))]

\* jnp.flipud on a vector
flipud(v) == [k \in 1..Len(v) |-> v[Len(v) + 1 - k]]

\* jnp.roll(v, shift, axis=0)
roll(v, shift) == [k \in 1..Len(v) |-> v[((k - 1 - shift) % Len(v)) + 1]]

\* jnp.arange(lo, hi)
arange(lo, hi) == [k \in 1..(hi - lo) |-> lo + k - 1]

\* slices in which the left side of b is taken as it is stored
child_slices_unflipped(h_in, nside) ==
    [h_a_1 |-> PySlice(h_in[1], 3 * nside, 4 * nside) \o PySlice(h_in[1], 0, nside),
     h_a_5 |-> PySlice(h_in[1], nside, 2 * nside),
     h_a_8 |-> flipud(PySlice(h_in[1], 2 * nside, 3 * nside)),
     h_b_2 |-> PySlice(h_in[2], 0, 2 * nside),
     h_b_6 |-> PySlice(h_in[2], 2 * nside, 3 * nside),
     h_b_5 |-> PySlice(h_in[2], 3 * nside, 4 * nside),
     h_c_6 |-> flipud(PySlice(h_in[3], 0, nside)),
     h_c_3 |-> PySlice(h_in[3], nside, 3 * nside),
     h_c_7 |-> PySlice(h_in[3], 3 * nside, 4 * nside),
     h_d_8 |-> PySlice(h_in[4], 0, nside),
     h_d_7 |-> flipud(PySlice(h_in[4], nside, 2 * nside)),
     h_d_4 |-> PySlice(h_in[4], 2 * nside, 4 * nside)]

\* the slices assemble_boundary_data takes from the four children
child_slices(h_in, nside) ==
    [h_a_1 |-> PySlice(h_in[1], 3 * nside, 4 * nside) \o PySlice(h_in[1], 0, nside),
     h_a_5 |-> PySlice(h_in[1], nside, 2 * nside),
     h_a_8 |-> flipud(PySlice(h_in[1], 2 * nside, 3 * nside)),
     h_b_2 |-> PySlice(h_in[2], 0, 2 * nside),
     h_b_6 |-> PySlice(h_in[2], 2 * nside, 3 * nside),
     h_b_5 |-> flipud(PySlice(h_in[2], 3 * nside, 4 * nside)),
     h_c_6 |-> flipud(PySlice(h_in[3], 0, nside)),
     h_c_3 |-> PySlice(h_in[3], nside, 3 * nside),
     h_c_7 |-> PySlice(h_in[3], 3 * nside, 4 * nside),
     h_d_8 |-> PySlice(h_in[4], 0, nside),
     h_d_7 |-> flipud(PySlice(h_in[4], nside, 2 * nside)),
     h_d_4 |-> PySlice(h_in[4], 2 * nside, 4 * nside)]

\* an index vector that takes the a5 block twice
reorder_index_repeating(nside) ==
    arange(0, nside) \o arange(4 * nside, 5 * nside) \o arange(5 * nside, 6 * nside)
        \o arange(2 * nside, 3 * nside) \o arange(3 * nside, 4 * nside)
        \o arange(6 * nside, 7 * nside) \o arange(7 * nside, 8 * nside)
        \o arange(0, nside)

\* the index vector r
reorder_index(nside) ==
    arange(0, nside) \o arange(4 * nside, 5 * nside) \o arange(5 * nside, 6 * nside)
        \o arange(2 * nside, 3 * nside) \o arange(3 * nside, 4 * nside)
        \o arange(6 * nside, 7 * nside) \o arange(7 * nside, 8 * nside)
        \o arange(nside, 2 * nside)

\* a merged h left in the order of h_ext_child
merged_h_unrolled(h_ext_child, nside) == h_ext_child

\* h = h_ext_child - BD_inv @ h_ext_child keeps the order of h_ext_child and
\* is then rolled by -nside
merged_h(h_ext_child, nside) == roll(h_ext_child, 0 - nside)

\* the order of the interface blocks of D_inv @ h_int_child
GTildeBlocks == <<"a5", "a8", "c6", "c7", "b5", "b6", "d7", "d8">>

\* assemble_boundary_data on the four children's vectors, entry by entry
assemble_boundary_data(h_in) ==
    The({ The({ [nside |-> nside, slices |-> s,
                 h_int_child |-> s.h_b_5 \o s.h_d_8 \o s.h_b_6 \o s.h_d_7
                                    \o s.h_a_5 \o s.h_c_6 \o s.h_c_7 \o s.h_a_8,
                 h_ext_child |-> s.h_a_1 \o s.h_b_2 \o s.h_c_3 \o s.h_d_4,
                 r |-> reorder_index(nside),
                 g_tilde |-> [j \in 1..Len(reorder_index(nside)) |->
                                 [block |-> GTildeBlocks[(reorder_index(nside)[j] \div nside) + 1],
                                  k |-> reorder_index(nside)[j] % nside]],
                 h |-> merged_h(s.h_a_1 \o s.h_b_2 \o s.h_c_3 \o s.h_d_4, nside)]
                : s \in {child_slices(h_in, nside)} })
          : nside \in {Len(h_in[1]) \div 4} })

\* the merges of a tree: leaves have q points per side, and every level
\* doubles it
BoundaryInputs ==
    {[op |-> "assemble_boundary_data", nside |-> q * Pow(2, level),
      h_in |-> [c \in 1..4 |-> ChildBoundary(c - 1, q * Pow(2, level))]]
       : q \in 1..MaxQ, level \in 0..(MaxL - 1)}

----------------------------------------------------------------------------
(* get_DtN entry by entry, on matrices held as sequences of rows with      *)
(* exact rational entries.                                                 *)

\* the rational n/d in lowest terms with a positive denominator; 0/0 stands
\* for a value that is not finite
Rat(n, d) ==
    IF d = 0 THEN [num |-> 0, den |-> 0]
    ELSE The({ [num |-> (IF d < 0 THEN 0 - n ELSE n) \div g,
                den |-> (IF d < 0 THEN 0 - d ELSE d) \div g]
               : g \in {Gcd(IF n < 0 THEN 0 - n ELSE n, IF d < 0 THEN 0 - d ELSE d)} })

RatAdd(x, y) == Rat(x.num * y.den + y.num * x.den, x.den * y.den)

RatMul(x, y) == Rat(x.num * y.num, x.den * y.den)

RatDiv(x, y) == IF y.den = 0 THEN Rat(0, 0) ELSE Rat(x.num * y.den, x.den * y.num)

\* the array <<F(1), ..., F(n)>>
RECURSIVE Tab(_, _)
Tab(F(_), n) == IF n <= 0 THEN <<>> ELSE Append(Tab(F, n - 1), F(n))

\* the sum of the u[k] * v[k]
RECURSIVE Dot(_, _)
Dot(u, v) ==
    IF u = <<>> THEN Rat(0, 1)
    ELSE RatAdd(RatMul(Head(u), Head(v)), Dot(Tail(u), Tail(v)))

\* a @ v for a matrix a and a vector v
matvec(a, v) == Tab(LAMBDA i : Dot(a[i], v), Len(a))

\* a @ b for two matrices, b with ncols columns
matmul(a, b, ncols) ==
    Tab(LAMBDA i : Tab(LAMBDA j : Dot(a[i], Tab(LAMBDA k : b[k][j], Len(b))), ncols), Len(a))

\* Gauss-Jordan elimination on the rows of [a | I] from column k on; a
\* singular matrix gives entries that are not finite
RECURSIVE GaussJordan(_, _)
GaussJordan(aug, k) ==
    IF k > Len(aug)
    THEN Tab(LAMBDA i : SubSeq(aug[i], Len(aug) + 1, 2 * Len(aug)), Len(aug))
    ELSE IF \A r \in k..Len(aug) : aug[r][k].num = 0
    THEN Tab(LAMBDA i : Tab(LAMBDA j : Rat(0, 0), Len(aug)), Len(aug))
    ELSE The({ The({ GaussJordan(
                        Tab(LAMBDA i :
                              IF i = k THEN row
                              ELSE The({ Tab(LAMBDA j :
                                               RatAdd(src[j],
                                                      RatMul(Rat(0 - src[k].num, src[k].den),
                                                             row[j])),
                                             Len(row))
                                         : src \in {IF i = piv THEN aug[k] ELSE aug[i]} }),
                            Len(aug)),
                        k + 1)
                     : row \in {Tab(LAMBDA j : RatDiv(aug[piv][j], aug[piv][k]),
                                    2 * Len(aug))} })
               : piv \in {CHOOSE r \in k..Len(aug) :
                             /\ aug[r][k].num # 0
                             /\ \A r2 \in k..(r - 1) : aug[r2][k].num = 0} })

\* jnp.linalg.inv on a square matrix
inv(a) ==
    GaussJordan(Tab(LAMBDA i : a[i] \o Tab(LAMBDA j : Rat(IF i = j THEN 1 ELSE 0, 1), Len(a)),
                    Len(a)), 1)

\* a particular solution that keeps the source on the boundary nodes
particular_solution_keeping_source(A_ii_inv, source_term, n_cheby_bdry) ==
    PySlice(source_term, 0, n_cheby_bdry)
        \o matvec(A_ii_inv, PySlice(source_term, n_cheby_bdry, Len(source_term)))

\* v = zeros; v.at[n_cheby_bdry:].set(A_ii_inv @ source_term[n_cheby_bdry:])
particular_solution(A_ii_inv, source_term, n_cheby_bdry) ==
    Tab(LAMBDA i : Rat(0, 1), n_cheby_bdry)
        \o matvec(A_ii_inv, PySlice(source_term, n_cheby_bdry, Len(source_term)))

\* get_DtN on one leaf, entry by entry
get_DtN_entries(source_term, diff_operator, Q, P) ==
    The({ The({ [Y |-> Y, T |-> matmul(Q, Y, Len(Q)), v |-> v, h |-> matvec(Q, v)]
                : Y \in {matmul(
                           \* L_2: the identity on top of soln_operator
                           Tab(LAMBDA i : Tab(LAMBDA j : Rat(IF i = j THEN 1 ELSE 0, 1),
                                              Len(P)), Len(P))
                             \o matmul(Tab(LAMBDA i : Tab(LAMBDA j :
                                                            RatMul(Rat(0 - 1, 1), A_ii_inv[i][j]),
                                                          Len(A_ii_inv)), Len(A_ii_inv)),
                                       \* A_ie
                                       Tab(LAMBDA i : PySlice(diff_operator[Len(P) + i], 0, Len(P)),
                                           Len(diff_operator) - Len(P)),
                                       Len(P)),
                           P, Len(Q))},
                  v \in {particular_solution(A_ii_inv, source_term, Len(P))} })
          : A_ii_inv \in {inv(Tab(LAMBDA i : PySlice(diff_operator[Len(P) + i], Len(P),
                                                     Len(diff_operator)),
                                  Len(diff_operator) - Len(P)))} })

\* leaves of order p with q boundary points per side: the interior block of
\* the operator is a second difference, with its rows in either order, and
\* the other entries are -1, 0 or 1
DtNInputs ==
    {[op |-> "get_DtN", p |-> p, q |-> q,
      source_term |-> Tab(LAMBDA i : Rat(d + (i % 2), 1), p * p),
      diff_operator |->
          Tab(LAMBDA i : Tab(LAMBDA j :
                IF i > 4 * (p - 1) /\ j > 4 * (p - 1)
                THEN The({ Rat(IF r = j THEN 2 ELSE IF r - j \in {1, 0 - 1} THEN 0 - 1 ELSE 0, 1)
                           : r \in {IF d % 2 = 0 THEN p * p + 4 * (p - 1) + 1 - i ELSE i} })
                ELSE Rat(((i * j + d) % 3) - 1, 1), p * p), p * p),
      Q |-> Tab(LAMBDA i : Tab(LAMBDA j : Rat(((i * j + i + d) % 3) - 1, 1), p * p), 4 * q),
      P |-> Tab(LAMBDA i : Tab(LAMBDA j : Rat(((i * j + d) % 3) - 1, 1), 4 * q), 4 * (p - 1))]
       : p \in 2..MaxP, q \in 1..MaxQ, d \in 1..MaxData}

AssembleInit ==
    /\ FusedIdle
    /\ StagesIdle
    /\ fn_in \in {[op |-> "assemble_diff_operator", coeffs |-> c] : c \in CoeffChoices}
                \cup {[op |-> "prep_nonuniform", coeffs |-> c, sidelen |-> s]
                         : c \in CoeffChoices3D, s \in Sidelens}
                \cup BoundaryInputs
                \cup DtNInputs
    /\ fn_out = NoFn
    /\ pde_problem = build_solver(PDEProblem(TRUE, TRUE, TRUE, 1, MaxP, MaxQ, 1, None))
    /\ built = pde_problem
    /\ calls = <<>>
    /\ outcome = "none"
    /\ result = None
    /\ args = NoArgs

\* the coefficients are gathered and the operator of the leaf is assembled
AssembleDiffOperator ==
    /\ fn_in.op = "assemble_diff_operator"
    /\ fn_out.op = "none"
    /\ \E g \in {gather_coeffs_2D(fn_in.coeffs)} :
         fn_out' = [op |-> "assemble_diff_operator",
                    out |-> assemble_diff_operator(g.coeffs_gathered, g.which_coeffs,
                                                   StackOrder2D)]
    /\ UNCHANGED fn_in
    /\ UNCHANGED solveVars
    /\ UNCHANGED fusedVars
    /\ UNCHANGED stageVars

\* the operators of one leaf of an adaptive 3D tree are rescaled and assembled
PrepNonuniformRefinement ==
    /\ fn_in.op = "prep_nonuniform"
    /\ fn_out.op = "none"
    /\ \E g \in {gather_coeffs_3D(fn_in.coeffs)} :
       \E r \in {prep_nonuniform_refinement_diff_operators_3D(
                     fn_in.sidelen, g.coeffs_gathered, g.which_coeffs,
                     diff_ops_3D_stack, MaxP, MaxQ)} :
         fn_out' = [op |-> "prep_nonuniform", out |-> r.diff_operator, Q_D |-> r.Q_D]
    /\ UNCHANGED fn_in
    /\ UNCHANGED solveVars
    /\ UNCHANGED fusedVars
    /\ UNCHANGED stageVars

\* the particular data of four siblings is assembled for their parent
AssembleBoundaryEntries ==
    /\ fn_in.op = "assemble_boundary_data"
    /\ fn_out.op = "none"
    /\ \E a \in {assemble_boundary_data(fn_in.h_in)} :
         fn_out' = [op |-> "assemble_boundary_data", slices |-> a.slices,
                    h_int_child |-> a.h_int_child, h_ext_child |-> a.h_ext_child,
                    r |-> a.r, g_tilde |-> a.g_tilde, h |-> a.h]
    /\ UNCHANGED fn_in
    /\ UNCHANGED solveVars
    /\ UNCHANGED fusedVars
    /\ UNCHANGED stageVars

\* the local solve of one leaf
GetDtNEntries ==
    /\ fn_in.op = "get_DtN"
    /\ fn_out.op = "none"
    /\ \E o \in {get_DtN_entries(fn_in.source_term, fn_in.diff_operator, fn_in.Q, fn_in.P)} :
         fn_out' = [op |-> "get_DtN", Y |-> o.Y, T |-> o.T, v |-> o.v, h |-> o.h]
    /\ UNCHANGED fn_in
    /\ UNCHANGED solveVars
    /\ UNCHANGED fusedVars
    /\ UNCHANGED stageVars

AssembleNext ==
    \/ AssembleDiffOperator
    \/ PrepNonuniformRefinement
    \/ AssembleBoundaryEntries
    \/ GetDtNEntries

SpecAssemble == AssembleInit /\ [][AssembleNext]_vars

Assembled == fn_out.op = "assemble_diff_operator"

Prepared == fn_out.op = "prep_nonuniform"

SubtreeNodes(top, height) ==
    [k \in 1..(Len(top) \div Pow(4, height)) |->
        PySlice(top, (k - 1) * Pow(4, height), k * Pow(4, height))]

\* the boundary data handed to a down pass: a 1-D array (one row) or a 2-D one
BdryData(ndim, rows) == [ndim |-> ndim, rows |-> rows]

\* bdry_data.reshape((1, -1)) if bdry_data.ndim == 1
reshape_one_row(bdry_data) == BdryData(2, bdry_data.rows)

\* _partial_down_pass with its deletions: S_arr and v_int of a level are
\* deleted at the end of the pass of the loop that applied them
partial_down_pass_call(bdry_data, S_arr_lst, v_int_lst) ==
    The({ [outcome |-> r.outcome, bdry_data |-> BdryData(2, r.bdry_data),
           applied |-> r.applied, deleted |-> r.applied]
          : r \in {partial_down_pass(reshape_one_row(bdry_data).rows,
                                     S_arr_lst, v_int_lst)} })

\* _partial_down_pass_ItI with its deletions: every S and f is deleted after
\* the loop
partial_down_pass_ItI_call(bdry_data, S_arr_lst, v_int_lst) ==
    The({ [outcome |-> r.outcome, bdry_data |-> BdryData(2, r.bdry_data),
           applied |-> r.applied,
           deleted |-> IF r.outcome = "returned"
                       THEN [k \in 1..Len(S_arr_lst) |-> k - 1] ELSE <<>>]
          : r \in {partial_down_pass_ItI(reshape_one_row(bdry_data).rows,
                                         S_arr_lst, v_int_lst)} })

\* the calls: the roots are one node or all nodes at height top of a tree of
\* depth MaxL, the lists are those of the n levels below the roots, and the
\* boundary data is that of the roots (1-D when there is one root) or has
\* another length
DownPassCall(fn, top, n, roots, b) ==
    The({ [op |-> fn, top |-> top, roots |-> roots, n |-> n, bdry_data |-> b,
           S_arr_lst |-> build.S_lst, v_int_lst |-> build.g_tilde_lst]
          : build \in {uniform_build_stage_2D(
                          Concat([k \in 1..Len(roots) |->
                                     SubtreeNodes(roots[k], top - n)]), n)} })

DownPassRoots(top) ==
    {<<TreeNode(top, j)>> : j \in 0..(Pow(4, MaxL - top) - 1)}
        \cup {SubtreeNodes(TreeNode(MaxL, 0), top)}

DownPassData(roots) ==
    {BdryData(2, roots), BdryData(2, [k \in 1..Len(roots) |-> WrongLengthRow])}
        \cup (IF Len(roots) = 1 THEN {BdryData(1, roots)} ELSE {})

DownPassInputs ==
    UNION { UNION { {DownPassCall(fn, top, n, roots, b)
                       : fn \in {"_partial_down_pass", "_partial_down_pass_ItI"},
                         n \in 0..top, b \in DownPassData(roots)}
                    : roots \in DownPassRoots(top) }
            : top \in 0..MaxL }

DownPassInit ==
    /\ FusedIdle
    /\ StagesIdle
    /\ fn_in \in DownPassInputs
    /\ fn_out = NoFn
    /\ pde_problem = build_solver(PDEProblem(TRUE, TRUE, TRUE, 1, MaxP, MaxQ, 1, None))
    /\ built = pde_problem
    /\ calls = <<>>
    /\ outcome = "none"
    /\ result = None
    /\ args = NoArgs

PartialDownPass ==
    /\ fn_in.op = "_partial_down_pass"
    /\ fn_out.op = "none"
    /\ \E r \in {partial_down_pass_call(fn_in.bdry_data, fn_in.S_arr_lst, fn_in.v_int_lst)} :
         fn_out' = [op |-> fn_in.op, outcome |-> r.outcome, bdry_data |-> r.bdry_data,
                    applied |-> r.applied, deleted |-> r.deleted]
    /\ UNCHANGED fn_in
    /\ UNCHANGED solveVars
    /\ UNCHANGED fusedVars
    /\ UNCHANGED stageVars

PartialDownPassItI ==
    /\ fn_in.op = "_partial_down_pass_ItI"
    /\ fn_out.op = "none"
    /\ \E r \in {partial_down_pass_ItI_call(fn_in.bdry_data, fn_in.S_arr_lst,
                                            fn_in.v_int_lst)} :
         fn_out' = [op |-> fn_in.op, outcome |-> r.outcome, bdry_data |-> r.bdry_data,
                    applied |-> r.applied, deleted |-> r.deleted]
    /\ UNCHANGED fn_in
    /\ UNCHANGED solveVars
    /\ UNCHANGED fusedVars
    /\ UNCHANGED stageVars

DownPassNext ==
    \/ PartialDownPass
    \/ PartialDownPassItI

SpecDownPass == DownPassInit /\ [][DownPassNext]_vars

(***************************************************************************)
(* Claims about the partial down passes                                    *)
(***************************************************************************)

DownPassCalled == fn_out.op \in {"_partial_down_pass", "_partial_down_pass_ItI"}

ProperData == fn_in.bdry_data.rows = fn_in.roots

\* C21: a partial down pass over n >= 1 levels applies the S maps from the
\* last list entry down to entry 0, each level once and with the particular
\* data of the same index; from one row of boundary data it ends with 4^n
\* rows, the boundary data of the nodes n levels below the root, in order.
C21_TopDownOneLevelAtATime ==
    (DownPassCalled /\ ProperData /\ fn_in.n >= 1) =>
        /\ fn_out.outcome = "returned"
        /\ fn_out.applied = [k \in 1..fn_in.n |-> fn_in.n - k]
        /\ Len(fn_out.bdry_data.rows) = Len(fn_in.roots) * Pow(4, fn_in.n)
        /\ fn_out.bdry_data.rows =
              Concat([k \in 1..Len(fn_in.roots) |->
                         SubtreeNodes(fn_in.roots[k], fn_in.top - fn_in.n)])

\* a down pass over two levels from the one row of a root, ended with 16 rows
C21_Witness ==
    /\ DownPassCalled
    /\ fn_in.n = 2
    /\ Len(fn_in.roots) = 1
    /\ ProperData
    /\ fn_out.applied = <<1, 0>>
    /\ Len(fn_out.bdry_data.rows) = 16

\* C28: with empty lists both partial down passes return the boundary data
\* they were given, as one row, and raise nothing.
C28_NoLevelsReturnsData ==
    (DownPassCalled /\ fn_in.n = 0) =>
        /\ fn_out.outcome = "returned"
        /\ fn_out.bdry_data = BdryData(2, fn_in.bdry_data.rows)

(***************************************************************************)
(* Claims about assemble_boundary_data                                     *)
(***************************************************************************)

BoundaryAssembled == fn_out.op = "assemble_boundary_data"

\* C26: on each of the four merge interfaces the two slices taken from the
\* adjoining children run from the parent's outer boundary toward its
\* centre, and entry k of both slices is the same point of the interface.
C26_InterfaceSlicesAligned ==
    BoundaryAssembled =>
        \A pair \in {<<fn_out.slices.h_a_5, fn_out.slices.h_b_5>>,
                     <<fn_out.slices.h_b_6, fn_out.slices.h_c_6>>,
                     <<fn_out.slices.h_c_7, fn_out.slices.h_d_7>>,
                     <<fn_out.slices.h_d_8, fn_out.slices.h_a_8>>} :
            LET centre == 2 * fn_in.nside
                \* the distance of the k-th entry from the parent's centre
                away(v, k) == (IF v[k].pt[1] > centre THEN v[k].pt[1] - centre
                               ELSE centre - v[k].pt[1])
                              + (IF v[k].pt[2] > centre THEN v[k].pt[2] - centre
                                 ELSE centre - v[k].pt[2])
            IN  /\ Len(pair[1]) = fn_in.nside
                /\ Len(pair[2]) = fn_in.nside
                /\ \A k \in 1..fn_in.nside :
                      /\ pair[1][k].pt = pair[2][k].pt
                      /\ pair[1][k].child # pair[2][k].child
                      /\ k > 1 => /\ away(pair[1], k) < away(pair[1], k - 1)
                                  /\ away(pair[2], k) < away(pair[2], k - 1)

\* siblings with several points per side were merged, and the first entry of
\* the two slices of interface 5 is the point next to the outer boundary
C26_Witness ==
    /\ BoundaryAssembled
    /\ fn_in.nside >= 2
    /\ fn_out.slices.h_a_5[1] = [child |-> 0, pt |-> <<2 * fn_in.nside, 1>>]
    /\ fn_out.slices.h_b_5[1] = [child |-> 1, pt |-> <<2 * fn_in.nside, 1>>]

C30_EveryEntryUsedOnce ==
    BoundaryAssembled =>
        LET n == fn_in.nside
            used == fn_out.h_ext_child \o fn_out.h_int_child
            of_child(v, c) == {k \in 1..Len(v) : v[k].child = c}
        IN  /\ Len(fn_out.h_ext_child) = 8 * n
            /\ Len(fn_out.h_int_child) = 8 * n
            /\ Len(fn_out.h) = 8 * n
            /\ Len(fn_out.g_tilde) = 8 * n
            /\ \A c \in 0..3 :
                  /\ Cardinality(of_child(fn_out.h_ext_child, c)) = 2 * n
                  /\ Cardinality(of_child(fn_out.h_int_child, c)) = 2 * n
                  /\ \A k \in 1..(4 * n) :
                        Cardinality({j \in 1..Len(used) : used[j] = fn_in.h_in[c + 1][k]}) = 1
            /\ Len(fn_out.r) = 8 * n
            /\ {fn_out.r[j] : j \in 1..Len(fn_out.r)} = 0..(8 * n - 1)
            /\ \A j \in 1..(8 * n) :
                  fn_out.g_tilde[j] =
                      [block |-> <<"a5", "b5", "b6", "c6", "c7", "d7", "d8", "a8">>[((j - 1) \div n) + 1],
                       k |-> (j - 1) % n]

\* siblings with several points per side were merged and the reordered
\* g_tilde ends with the a8 block, which D_inv gives second
C30_Witness ==
    /\ BoundaryAssembled
    /\ fn_in.nside >= 2
    /\ fn_out.r[Len(fn_out.r)] = 2 * fn_in.nside - 1
    /\ fn_out.g_tilde[Len(fn_out.g_tilde)] = [block |-> "a8", k |-> fn_in.nside - 1]

(***************************************************************************)
(* Claims about get_DtN                                                    *)
(***************************************************************************)

DtNComputed == fn_out.op = "get_DtN"

\* C29: the particular solution v of get_DtN is zero on the first
\* n_cheby_bdry nodes, the first n_cheby_bdry rows of Y are P, T is Q @ Y
\* and h is Q @ v.
C29_ParticularSolutionZeroOnBoundary ==
    DtNComputed =>
        /\ Len(fn_out.v) = fn_in.p * fn_in.p
        /\ Len(fn_out.Y) = fn_in.p * fn_in.p
        /\ \A i \in 1..Len(fn_in.P) :
              /\ fn_out.v[i] = Rat(0, 1)
              /\ fn_out.Y[i] = fn_in.P[i]
        /\ fn_out.T = matmul(fn_in.Q, fn_out.Y, Len(fn_in.Q))
        /\ fn_out.h = matvec(fn_in.Q, fn_out.v)

\* a leaf with interior nodes was solved: the interior part of v is not zero
\* and solves A_ii v = source there, the source is not zero on the boundary,
\* and h is not zero
C29_Witness ==
    /\ DtNComputed
    /\ fn_in.p >= 3
    /\ fn_in.source_term[1] # Rat(0, 1)
    /\ \E i \in (Len(fn_in.P) + 1)..Len(fn_out.v) : fn_out.v[i].num # 0
    /\ \A i \in 1..Len(fn_out.v) : fn_out.v[i].den # 0
    /\ matvec(Tab(LAMBDA i : PySlice(fn_in.diff_operator[Len(fn_in.P) + i], Len(fn_in.P),
                                     Len(fn_in.diff_operator)),
                  Len(fn_in.diff_operator) - Len(fn_in.P)),
              PySlice(fn_out.v, Len(fn_in.P), Len(fn_out.v)))
          = PySlice(fn_in.source_term, Len(fn_in.P), Len(fn_in.source_term))
    /\ \E i \in 1..Len(fn_out.h) : fn_out.h[i].num # 0

====
